---- MODULE Spec2Model ----
(***************************************************************************)
(* The LEG 8-bit computer of src/src/leg_computer.rs: the two-byte          *)
(* instruction encoding, the machine state and the interpreter's step().    *)
(* Enumerations keep the variant names of the source as strings; the        *)
(* `as u8` casts and the try_from tables are separate definitions.          *)
(***************************************************************************)
EXTENDS Integers, Sequences, FiniteSets, TLC

(***************************************************************************)
(* Bounds of the model.                                                     *)
(***************************************************************************)
\* how many step() calls a run of the model makes at most
MaxSteps == 7
\* operand bytes are sampled within SampleSpan of the edges 0, 128 and 256
SampleSpan == 1

(***************************************************************************)
(* u8 arithmetic as Rust computes it.                                       *)
(***************************************************************************)
Byte == 0..255

\* fn to_bytes(a: u8) -> [bool; 8]: bit i of a, least significant first
to_bytes(a) == [i \in 0..7 |-> ((a \div (2^i)) % 2) = 1]

\* fn from_bytes(a: [bool; 8]) -> u8
from_bytes(a) ==
    (IF a[0] THEN 1 ELSE 0) + (IF a[1] THEN 2 ELSE 0) + (IF a[2] THEN 4 ELSE 0)
  + (IF a[3] THEN 8 ELSE 0) + (IF a[4] THEN 16 ELSE 0) + (IF a[5] THEN 32 ELSE 0)
  + (IF a[6] THEN 64 ELSE 0) + (IF a[7] THEN 128 ELSE 0)

\* x | y on u8
BitOr(x, y) == from_bytes([i \in 0..7 |-> to_bytes(x)[i] \/ to_bytes(y)[i]])
\* x & y on u8
BitAnd(x, y) == from_bytes([i \in 0..7 |-> to_bytes(x)[i] /\ to_bytes(y)[i]])
\* x << n on u8 (n < 8): the bits shifted out are dropped
Shl(x, n) == (x * (2^n)) % 256
\* x >> n on u8 (n < 8)
Shr(x, n) == x \div (2^n)

\* Result<T, String>
Ok(v) == [ok |-> TRUE, val |-> v]
Err(msg, w) == [ok |-> FALSE, val |-> <<msg, w>>]

(***************************************************************************)
(* The enumerations: discriminants (`as u8`) and TryFrom<Word> tables.      *)
(***************************************************************************)
Opcode_as_u8(o) ==
    CASE o = "Nop" -> 0 [] o = "Load" -> 1 [] o = "LoadP" -> 2 [] o = "Store" -> 3
      [] o = "StoreP" -> 4 [] o = "Mov" -> 5 [] o = "MovC" -> 6 [] o = "Jmp" -> 7
      [] o = "JmpP" -> 8 [] o = "JmpR" -> 9 [] o = "JmpRP" -> 10 [] o = "Stack" -> 11
      [] o = "Gpio" -> 12 [] o = "Alu" -> 13

Opcode_try_from(w) ==
    CASE w = 0 -> Ok("Nop") [] w = 1 -> Ok("Load") [] w = 2 -> Ok("LoadP")
      [] w = 3 -> Ok("Store") [] w = 4 -> Ok("StoreP") [] w = 5 -> Ok("Mov")
      [] w = 6 -> Ok("MovC") [] w = 7 -> Ok("Jmp") [] w = 8 -> Ok("JmpP")
      [] w = 9 -> Ok("JmpR") [] w = 10 -> Ok("JmpRP") [] w = 11 -> Ok("Stack")
      [] w = 12 -> Ok("Gpio") [] w = 13 -> Ok("Alu")
      [] OTHER -> Err("Invalid opcode", w)

RegisterRef == {"A", "B", "C", "D", "FL", "ST", "BP", "IP"}
GeneralRegisterRef == {"A", "B", "C", "D"}

RegisterRef_as_u8(r) ==
    CASE r = "A" -> 0 [] r = "B" -> 1 [] r = "C" -> 2 [] r = "D" -> 3
      [] r = "FL" -> 12 [] r = "ST" -> 13 [] r = "BP" -> 14 [] r = "IP" -> 15

\* mutant: the table with ST and BP exchanged
RegisterRef_try_from_swapped(w) ==
    CASE w = 0 -> Ok("A") [] w = 1 -> Ok("B") [] w = 2 -> Ok("C") [] w = 3 -> Ok("D")
      [] w = 12 -> Ok("FL") [] w = 13 -> Ok("BP") [] w = 14 -> Ok("ST")
      [] w = 15 -> Ok("IP")
      [] OTHER -> Err("Invalid register", w)

RegisterRef_try_from(w) ==
    CASE w = 0 -> Ok("A") [] w = 1 -> Ok("B") [] w = 2 -> Ok("C") [] w = 3 -> Ok("D")
      [] w = 12 -> Ok("FL") [] w = 13 -> Ok("ST") [] w = 14 -> Ok("BP")
      [] w = 15 -> Ok("IP")
      [] OTHER -> Err("Invalid register", w)

AluOpcode == {"Add", "AddCarry", "Incr", "Decr", "Xor", "Neg", "Sub", "Or", "And",
              "Nand", "Nor", "ShiftL", "ShiftR", "Echo"}

AluOpcode_as_u8(o) ==
    CASE o = "Add" -> 0 [] o = "AddCarry" -> 1 [] o = "Incr" -> 2 [] o = "Decr" -> 3
      [] o = "Xor" -> 4 [] o = "Neg" -> 5 [] o = "Sub" -> 6 [] o = "Or" -> 8
      [] o = "And" -> 9 [] o = "Nand" -> 10 [] o = "Nor" -> 11 [] o = "ShiftL" -> 12
      [] o = "ShiftR" -> 13 [] o = "Echo" -> 15

AluOpcode_try_from(w) ==
    CASE w = 0 -> Ok("Add") [] w = 1 -> Ok("AddCarry") [] w = 2 -> Ok("Incr")
      [] w = 3 -> Ok("Decr") [] w = 4 -> Ok("Xor") [] w = 5 -> Ok("Neg")
      [] w = 6 -> Ok("Sub") [] w = 8 -> Ok("Or") [] w = 9 -> Ok("And")
      [] w = 10 -> Ok("Nand") [] w = 11 -> Ok("Nor") [] w = 12 -> Ok("ShiftL")
      [] w = 13 -> Ok("ShiftR") [] w = 15 -> Ok("Echo")
      [] OTHER -> Err("Invalid ALU opcode", w)

RealFlagRef == {"EqZero", "OverflowUnsigned", "OverflowSigned", "Equal", "GreaterThan",
                "GreaterThanSigned", "GreaterOrEqual", "GreaterOrEqualSigned", "NotEqual",
                "LessThan", "LessThanSigned", "LessOrEqual", "LessOrEqualSigned"}
AluFlagRef == RealFlagRef \cup {"False", "True"}

AluFlagRef_as_u8(f) ==
    CASE f = "EqZero" -> 0 [] f = "OverflowUnsigned" -> 1 [] f = "OverflowSigned" -> 2
      [] f = "Equal" -> 3 [] f = "GreaterThan" -> 4 [] f = "GreaterThanSigned" -> 5
      [] f = "GreaterOrEqual" -> 6 [] f = "GreaterOrEqualSigned" -> 7
      [] f = "NotEqual" -> 8 [] f = "LessThan" -> 9 [] f = "LessThanSigned" -> 10
      [] f = "LessOrEqual" -> 11 [] f = "LessOrEqualSigned" -> 12
      [] f = "False" -> 14 [] f = "True" -> 15

AluFlagRef_try_from(w) ==
    CASE w = 0 -> Ok("EqZero") [] w = 1 -> Ok("OverflowUnsigned")
      [] w = 2 -> Ok("OverflowSigned") [] w = 3 -> Ok("Equal")
      [] w = 4 -> Ok("GreaterThan") [] w = 5 -> Ok("GreaterThanSigned")
      [] w = 6 -> Ok("GreaterOrEqual") [] w = 7 -> Ok("GreaterOrEqualSigned")
      [] w = 8 -> Ok("NotEqual") [] w = 9 -> Ok("LessThan")
      [] w = 10 -> Ok("LessThanSigned") [] w = 11 -> Ok("LessOrEqual")
      [] w = 12 -> Ok("LessOrEqualSigned")
      [] w = 14 -> Ok("False") [] w = 15 -> Ok("True")
      [] OTHER -> Err("Invalid flag", w)

StackOpcode_as_u8(o) ==
    CASE o = "Ret" -> 0 [] o = "Push" -> 1 [] o = "Pop" -> 2 [] o = "Call" -> 4
      [] o = "CallC" -> 5 [] o = "CallR" -> 6 [] o = "LoadA" -> 8 [] o = "LoadB" -> 9
      [] o = "LoadC" -> 10 [] o = "LoadD" -> 11

StackOpcode_try_from(w) ==
    CASE w = 0 -> Ok("Ret") [] w = 1 -> Ok("Push") [] w = 2 -> Ok("Pop")
      [] w = 4 -> Ok("Call") [] w = 5 -> Ok("CallC") [] w = 6 -> Ok("CallR")
      [] w = 8 -> Ok("LoadA") [] w = 9 -> Ok("LoadB") [] w = 10 -> Ok("LoadC")
      [] w = 11 -> Ok("LoadD")
      [] OTHER -> Err("Invalid stack opcode", w)

NopOpcode == {"Halt", "Nop"}

NopOpcode_as_u8(n) == CASE n = "Halt" -> 0 [] n = "Nop" -> 255

\* mutant: every second byte other than 0 taken as NOP
NopOpcode_try_from_lenient(w) ==
    CASE w = 0 -> Ok("Halt") [] w = 255 -> Ok("Nop")
      [] OTHER -> Ok("Nop")

NopOpcode_try_from(w) ==
    CASE w = 0 -> Ok("Halt") [] w = 255 -> Ok("Nop")
      [] OTHER -> Err("Invalid NOP opcode", w)

(***************************************************************************)
(* Instruction values (enum Instruction, enum StackInstruction).            *)
(***************************************************************************)
Load(dest, addr) == [kind |-> "Load", dest |-> dest, addr |-> addr]
LoadP(dest, addr_src) == [kind |-> "LoadP", dest |-> dest, addr_src |-> addr_src]
Store(src, addr) == [kind |-> "Store", src |-> src, addr |-> addr]
StoreP(src, addr_src) == [kind |-> "StoreP", src |-> src, addr_src |-> addr_src]
Mov(dest, src) == [kind |-> "Mov", dest |-> dest, src |-> src]
MovC(dest, val) == [kind |-> "MovC", dest |-> dest, val |-> val]
Jmp(flag, addr) == [kind |-> "Jmp", flag |-> flag, addr |-> addr]
JmpP(flag, addr_src) == [kind |-> "JmpP", flag |-> flag, addr_src |-> addr_src]
JmpR(flag, diff) == [kind |-> "JmpR", flag |-> flag, diff |-> diff]
JmpRP(flag, diff_src) == [kind |-> "JmpRP", flag |-> flag, diff_src |-> diff_src]
Stack(stack_ins) == [kind |-> "Stack", stack_ins |-> stack_ins]
Gpi(dest) == [kind |-> "Gpi", dest |-> dest]
Gpo(src) == [kind |-> "Gpo", src |-> src]
Alu(op, arg1, arg2, out) ==
    [kind |-> "Alu", op |-> op, arg1 |-> arg1, arg2 |-> arg2, out |-> out]
Nop(nopcode) == [kind |-> "Nop", nopcode |-> nopcode]

SPush(src) == [kind |-> "Push", src |-> src]
SPop(dest) == [kind |-> "Pop", dest |-> dest]
SLoad(dest, bp_diff) == [kind |-> "Load", dest |-> dest, bp_diff |-> bp_diff]
SCall(addr_reg) == [kind |-> "Call", addr_reg |-> addr_reg]
SCallC(addr) == [kind |-> "CallC", addr |-> addr]
SCallR(diff) == [kind |-> "CallR", diff |-> diff]
SRet(src) == [kind |-> "Ret", src |-> src]

\* the marker of a thread that panicked while encoding
EncodePanic == <<"panic">>

\* impl Into<(Word, Word)> for &StackInstruction
StackInstruction_into(s) ==
    LET cat(op, arg) == <<BitOr(Shl(Opcode_as_u8("Stack"), 4), StackOpcode_as_u8(op)), arg>>
    IN CASE s.kind = "Push" -> cat("Push", RegisterRef_as_u8(s.src))
         [] s.kind = "Pop" -> cat("Pop", RegisterRef_as_u8(s.dest))
         [] s.kind = "Call" -> cat("Call", RegisterRef_as_u8(s.addr_reg))
         [] s.kind = "CallC" -> cat("CallC", s.addr)
         [] s.kind = "CallR" -> cat("CallR", s.diff)
         [] s.kind = "Ret" -> cat("Ret", RegisterRef_as_u8(s.src))
         [] s.kind = "Load" ->
              (CASE s.dest = "A" -> cat("LoadA", s.bp_diff)
                 [] s.dest = "B" -> cat("LoadB", s.bp_diff)
                 [] s.dest = "C" -> cat("LoadC", s.bp_diff)
                 [] s.dest = "D" -> cat("LoadD", s.bp_diff)
                 [] OTHER -> EncodePanic)

\* impl Into<(Word, Word)> for &Instruction
Instruction_into(i) ==
    LET pack(opcode, word1_tail, word2) ==
            <<BitOr(Shl(Opcode_as_u8(opcode), 4), RegisterRef_as_u8(word1_tail)), word2>>
        packf(opcode, word1_tail, word2) ==
            <<BitOr(Shl(Opcode_as_u8(opcode), 4), AluFlagRef_as_u8(word1_tail)), word2>>
        cat(opcode, word2) == <<Shl(Opcode_as_u8(opcode), 4), word2>>
    IN CASE i.kind = "Load" -> pack("Load", i.dest, i.addr)
         [] i.kind = "LoadP" -> pack("LoadP", i.dest, RegisterRef_as_u8(i.addr_src))
         [] i.kind = "Store" -> pack("Store", i.src, i.addr)
         [] i.kind = "StoreP" -> pack("StoreP", i.src, RegisterRef_as_u8(i.addr_src))
         [] i.kind = "Mov" -> pack("Mov", i.dest, RegisterRef_as_u8(i.src))
         [] i.kind = "MovC" -> pack("MovC", i.dest, i.val)
         [] i.kind = "Jmp" -> packf("Jmp", i.flag, i.addr)
         [] i.kind = "JmpP" -> packf("JmpP", i.flag, RegisterRef_as_u8(i.addr_src))
         [] i.kind = "JmpR" -> packf("JmpR", i.flag, i.diff)
         [] i.kind = "JmpRP" -> packf("JmpRP", i.flag, RegisterRef_as_u8(i.diff_src))
         [] i.kind = "Stack" -> StackInstruction_into(i.stack_ins)
         [] i.kind = "Gpi" ->
              <<BitOr(Shl(Opcode_as_u8("Gpio"), 4), 0), RegisterRef_as_u8(i.dest)>>
         [] i.kind = "Gpo" ->
              <<BitOr(Shl(Opcode_as_u8("Gpio"), 4), 1), RegisterRef_as_u8(i.src)>>
         [] i.kind = "Alu" ->
              <<BitOr(Shl(Opcode_as_u8("Alu"), 4), AluOpcode_as_u8(i.op)),
                BitOr(BitOr(Shl(RegisterRef_as_u8(i.arg1), 6),
                            Shl(RegisterRef_as_u8(i.arg2), 4)),
                      RegisterRef_as_u8(i.out))>>
         [] i.kind = "Nop" -> cat("Nop", NopOpcode_as_u8(i.nopcode))

\* impl TryFrom<(Word, Word)> for Instruction; `?` returns the first error
Instruction_try_from(word1, word2) ==
    LET opcode == Opcode_try_from(Shr(word1, 4))
        tail == BitAnd(word1, 15)
        reg1 == RegisterRef_try_from(tail)
        flag1 == AluFlagRef_try_from(tail)
        reg2 == RegisterRef_try_from(word2)
        reg2lo == RegisterRef_try_from(BitAnd(word2, 15))
        \* two fallible fields, the first one's error wins
        both(x, y, mk(_, _)) == IF ~x.ok THEN x ELSE IF ~y.ok THEN y ELSE Ok(mk(x.val, y.val))
        one(x, mk(_)) == IF ~x.ok THEN x ELSE Ok(mk(x.val))
    IN IF ~opcode.ok THEN opcode ELSE
       CASE opcode.val = "Load" -> one(reg1, LAMBDA d: Load(d, word2))
         [] opcode.val = "LoadP" -> both(reg1, reg2lo, LAMBDA d, a: LoadP(d, a))
         [] opcode.val = "Store" -> one(reg1, LAMBDA s: Store(s, word2))
         [] opcode.val = "StoreP" -> both(reg1, reg2lo, LAMBDA s, a: StoreP(s, a))
         [] opcode.val = "Mov" -> both(reg1, reg2, LAMBDA d, s: Mov(d, s))
         [] opcode.val = "MovC" -> one(reg1, LAMBDA d: MovC(d, word2))
         [] opcode.val = "Jmp" -> one(flag1, LAMBDA f: Jmp(f, word2))
         [] opcode.val = "JmpP" -> both(flag1, reg2lo, LAMBDA f, a: JmpP(f, a))
         [] opcode.val = "JmpR" -> one(flag1, LAMBDA f: JmpR(f, word2))
         [] opcode.val = "JmpRP" -> both(flag1, reg2lo, LAMBDA f, a: JmpRP(f, a))
         [] opcode.val = "Stack" ->
              LET stack_opcode == StackOpcode_try_from(tail)
              IN IF ~stack_opcode.ok THEN stack_opcode ELSE
                 (CASE stack_opcode.val = "Ret" -> one(reg2, LAMBDA s: Stack(SRet(s)))
                   [] stack_opcode.val = "Push" -> one(reg2, LAMBDA s: Stack(SPush(s)))
                   [] stack_opcode.val = "Pop" -> one(reg2, LAMBDA d: Stack(SPop(d)))
                   [] stack_opcode.val = "Call" -> one(reg2, LAMBDA a: Stack(SCall(a)))
                   [] stack_opcode.val = "CallC" -> Ok(Stack(SCallC(word2)))
                   [] stack_opcode.val = "CallR" -> Ok(Stack(SCallR(word2)))
                   [] stack_opcode.val = "LoadA" -> Ok(Stack(SLoad("A", word2)))
                   [] stack_opcode.val = "LoadB" -> Ok(Stack(SLoad("B", word2)))
                   [] stack_opcode.val = "LoadC" -> Ok(Stack(SLoad("C", word2)))
                   [] stack_opcode.val = "LoadD" -> Ok(Stack(SLoad("D", word2))))
         [] opcode.val = "Gpio" ->
              (CASE tail = 0 -> one(reg2lo, LAMBDA d: Gpi(d))
                 [] tail = 1 -> one(reg2lo, LAMBDA s: Gpo(s))
                 [] OTHER -> Err("Invalid GPIO op", tail))
         [] opcode.val = "Alu" ->
              LET op == AluOpcode_try_from(tail)
                  arg1 == RegisterRef_try_from(Shr(word2, 6))
                  arg2 == RegisterRef_try_from(BitAnd(Shr(word2, 4), 3))
                  out == RegisterRef_try_from(BitAnd(word2, 3))
              IN IF ~op.ok THEN op ELSE IF ~arg1.ok THEN arg1
                 ELSE IF ~arg2.ok THEN arg2 ELSE IF ~out.ok THEN out
                 ELSE Ok(Alu(op.val, arg1.val, arg2.val, out.val))
         [] opcode.val = "Nop" ->
              one(NopOpcode_try_from(word2), LAMBDA n: Nop(n))

(***************************************************************************)
(* The machine: struct LegComputer and the thread that drives it.           *)
(***************************************************************************)
VARIABLES
    eip,             \* pub eip: Word
    program,         \* pub program: Memory, the image instructions are fetched from
    memory,          \* pub memory: Memory, the image loads, stores and the stack use
    flags,           \* pub flags: AluFlags
    registers,       \* pub registers: Registers (a map RegisterRef -> Word)
    reg_i,           \* pub reg_i: Word
    reg_o,           \* pub reg_o: Word
    panicked,        \* the driving thread panicked (index, unwrap or overflow check)
    overflow_checks, \* build profile: u8 `+` panics on overflow (debug) or wraps (release)
    steps,           \* number of step() calls made
    hist,            \* the last two step() calls, latest first: state before, instruction
    frame,           \* the latest CALLC: its address, and BP and ST before it
    alu_ran,         \* some ALU instruction has executed
    c_pc,            \* codec run: "idle", "start", "encoded", "decoded"
    c_ins,           \* codec run: the Instruction under test
    c_words,         \* codec run: the (Word, Word) it encodes to
    c_back           \* codec run: the Result of decoding c_words

machine_vars == <<eip, program, memory, flags, registers, reg_i, reg_o, panicked,
                  overflow_checks, steps, hist, frame, alu_ran>>
codec_vars == <<c_pc, c_ins, c_words, c_back>>
vars == <<machine_vars, codec_vars>>

\* AluFlags::new
AluFlags_new ==
    [eq_zero |-> FALSE, overflow_unsigned |-> FALSE, overflow_signed |-> FALSE,
     equal |-> FALSE, greater_than |-> FALSE, greater_than_signed |-> FALSE,
     greater_or_equal |-> FALSE, greater_or_equal_signed |-> FALSE,
     not_equal |-> FALSE, less_than |-> FALSE, less_than_signed |-> FALSE,
     less_or_equal |-> FALSE, less_or_equal_signed |-> FALSE]

\* AluFlags::get
AluFlags_get(f, flag) ==
    CASE flag = "EqZero" -> f.eq_zero
      [] flag = "OverflowUnsigned" -> f.overflow_unsigned
      [] flag = "OverflowSigned" -> f.overflow_signed
      [] flag = "Equal" -> f.equal
      [] flag = "GreaterThan" -> f.greater_than
      [] flag = "GreaterThanSigned" -> f.greater_than_signed
      [] flag = "GreaterOrEqual" -> f.greater_or_equal
      [] flag = "GreaterOrEqualSigned" -> f.greater_or_equal_signed
      [] flag = "NotEqual" -> f.not_equal
      [] flag = "LessThan" -> f.less_than
      [] flag = "LessThanSigned" -> f.less_than_signed
      [] flag = "LessOrEqual" -> f.less_or_equal
      [] flag = "LessOrEqualSigned" -> f.less_or_equal_signed
      [] flag = "False" -> FALSE
      [] flag = "True" -> TRUE

\* AluFlags::as_word
AluFlags_as_word(f) ==
    BitOr(BitOr(BitOr(BitOr(BitOr(BitOr(BitOr(
        (IF f.eq_zero THEN 1 ELSE 0),
        (IF f.overflow_unsigned THEN 2 ELSE 0)),
        (IF f.overflow_signed THEN 4 ELSE 0)),
        (IF f.equal THEN 8 ELSE 0)),
        (IF f.greater_than THEN 16 ELSE 0)),
        (IF f.greater_than_signed THEN 32 ELSE 0)),
        (IF f.greater_or_equal THEN 64 ELSE 0)),
        (IF f.greater_or_equal_signed THEN 128 ELSE 0))

\* Registers::new: the six entries the map starts with
Registers_new == [r \in {"A", "B", "C", "D", "ST", "BP"} |-> 0]

\* Registers::get (the entry is present for every register step() asks for)
Registers_get(regs, reg) == regs[reg]

\* *Registers::get_mut(reg) = v: the entry is created when absent
Registers_set(regs, reg, v) ==
    [r \in (DOMAIN regs) \cup {reg} |-> IF r = reg THEN v ELSE regs[r]]

\* the LegComputer value the step operates on
Self ==
    [eip |-> eip, memory |-> memory, flags |-> flags, registers |-> registers,
     reg_i |-> reg_i, reg_o |-> reg_o, panicked |-> panicked]

\* LegComputer::new(program, memory), fields other than program
LegComputer_new(mem) ==
    [eip |-> 0, memory |-> mem, flags |-> AluFlags_new, registers |-> Registers_new,
     reg_i |-> 0, reg_o |-> 0, panicked |-> FALSE]

\* mutant: IP read as the address of the next instruction
read_register_next_ip(m, register) ==
    CASE register = "FL" -> AluFlags_as_word(m.flags)
      [] register = "IP" -> (m.eip + 2) % 256
      [] OTHER -> Registers_get(m.registers, register)

\* mutant: FL and IP read the last value written to them, when there is one
read_register_written(m, register) ==
    CASE register = "FL" /\ "FL" \notin DOMAIN m.registers -> AluFlags_as_word(m.flags)
      [] register = "IP" /\ "IP" \notin DOMAIN m.registers -> m.eip
      [] OTHER -> Registers_get(m.registers, register)

\* LegComputer::read_register
read_register(m, register) ==
    CASE register = "FL" -> AluFlags_as_word(m.flags)
      [] register = "IP" -> m.eip
      [] OTHER -> Registers_get(m.registers, register)

\* a panic unwinds out of step(): the fields keep what was written so far
panic(m) == [m EXCEPT !.panicked = TRUE]

\* self.eip = base + 2 on u8: wraps in a build without overflow checks, panics with them
set_eip_plus_2(m, base) ==
    IF base + 2 > 255
    THEN IF overflow_checks THEN panic(m) ELSE [m EXCEPT !.eip = (base + 2) % 256]
    ELSE [m EXCEPT !.eip = base + 2]

\* mutant: every advance skips one instruction
advance_skips_one(m) == set_eip_plus_2(set_eip_plus_2(m, m.eip), (m.eip + 2) % 256)

\* self.eip += 2
advance(m) == set_eip_plus_2(m, m.eip)

\* mutant: the value is stored at the old stack top, then ST moves
stack_push_post_decrement(m, value) ==
    LET old_st == read_register(m, "ST")
    IN [m EXCEPT !.registers = Registers_set(m.registers, "ST", (old_st + 255) % 256),
                 !.memory = [m.memory EXCEPT ![old_st] = value]]

\* LegComputer::stack_push
stack_push(m, value) ==
    LET new_st == (read_register(m, "ST") + 255) % 256   \* (st as u16 + 255) & 0xff
    IN [m EXCEPT !.registers = Registers_set(m.registers, "ST", new_st),
                 !.memory = [m.memory EXCEPT ![new_st] = value]]

\* mutant: ST moves first, then the cell it points at is read
stack_pop_pre_increment(m) ==
    LET new_st == (read_register(m, "ST") + 1) % 256
    IN [m |-> [m EXCEPT !.registers = Registers_set(m.registers, "ST", new_st)],
        result |-> m.memory[new_st]]

\* LegComputer::stack_pop: the machine after the pop and the popped value
stack_pop(m) ==
    LET current_st == read_register(m, "ST")
    IN [m |-> [m EXCEPT !.registers =
                   Registers_set(m.registers, "ST", (current_st + 1) % 256)],
        result |-> m.memory[current_st]]

\* mutant: the return address eip + 2 is saved instead of eip
call_saves_next(m, addr) ==
    LET m1 == stack_push(m, (m.eip + 2) % 256)
        m2 == stack_push(m1, read_register(m1, "BP"))
        current_st == read_register(m2, "ST")
    IN [m2 EXCEPT !.registers = Registers_set(m2.registers, "BP", current_st),
                  !.eip = addr]

\* mutant: the callee starts with all flags clear
call_clears_flags(m, addr) ==
    LET m1 == stack_push(m, m.eip)
        m2 == stack_push(m1, read_register(m1, "BP"))
        current_st == read_register(m2, "ST")
    IN [m2 EXCEPT !.registers = Registers_set(m2.registers, "BP", current_st),
                  !.eip = addr,
                  !.flags = AluFlags_new]

\* LegComputer::call
call(m, addr) ==
    LET m1 == stack_push(m, m.eip)
        m2 == stack_push(m1, read_register(m1, "BP"))
        current_st == read_register(m2, "ST")
    IN [m2 EXCEPT !.registers = Registers_set(m2.registers, "BP", current_st),
                  !.eip = addr]

\* mutant: the offset counted from the next instruction
add_i16_as_u8_from_next(x, y) == (x + 2 + y) % 256

\* (x as i16 + y as i16) as u8, x and y being u8
add_i16_as_u8(x, y) == (x + y) % 256

(***************************************************************************)
(* The ALU, on [bool; 8] values (bit 0 first).                              *)
(***************************************************************************)
\* [bool; 8] written as a literal
Arr(s) == [i \in 0..7 |-> s[i + 1]]

\* fn full_add(a, b, c) -> (sum, carry)
full_add(a, b, c) ==
    <<(a # b) # c, (b /\ c) \/ (a /\ (b \/ c))>>

\* the value of `carry` in add_8bit when iteration i starts (i = 8: after the loop)
RECURSIVE carry_at(_, _, _, _)
carry_at(a, b, carry, i) ==
    IF i = 0 THEN carry
    ELSE full_add(a[i - 1], b[i - 1], carry_at(a, b, carry, i - 1))[2]

\* mutant: the carry into bit 7 returned as the carry out
add_8bit_carry_into_top(a, b, carry) ==
    LET o == [i \in 0..7 |-> full_add(a[i], b[i], carry_at(a, b, carry, i))[1]]
        carry_out == carry_at(a, b, carry, 7)
        prev_carry == carry_at(a, b, carry, 7)
    IN <<o, carry_out, prev_carry # carry_at(a, b, carry, 8)>>

\* mutant: the signed overflow is the carry out of bit 7
add_8bit_signed_is_carry(a, b, carry) ==
    LET o == [i \in 0..7 |-> full_add(a[i], b[i], carry_at(a, b, carry, i))[1]]
        carry_out == carry_at(a, b, carry, 8)
        prev_carry == carry_at(a, b, carry, 7)
    IN <<o, carry_out, carry_out>>

\* fn add_8bit(a, b, carry) -> (o, carry, prev_carry ^ carry)
add_8bit(a, b, carry) ==
    LET o == [i \in 0..7 |-> full_add(a[i], b[i], carry_at(a, b, carry, i))[1]]
        carry_out == carry_at(a, b, carry, 8)
        prev_carry == carry_at(a, b, carry, 7)
    IN <<o, carry_out, prev_carry # carry_out>>

\* mutant: a shift count of 8 or more shifts every bit out
alu_shift_l_saturating(arg1, arg2) ==
    LET F == FALSE
        k == <<arg2[0], arg2[1], arg2[2]>>
    IN CASE (\E i \in 3..7 : arg2[i]) -> Arr(<<F, F, F, F, F, F, F, F>>)
         [] k = <<FALSE, FALSE, FALSE>> -> arg1
         [] k = <<TRUE, FALSE, FALSE>> ->
              Arr(<<F, arg1[0], arg1[1], arg1[2], arg1[3], arg1[4], arg1[5], arg1[6]>>)
         [] k = <<FALSE, TRUE, FALSE>> ->
              Arr(<<F, F, arg1[0], arg1[1], arg1[2], arg1[3], arg1[4], arg1[5]>>)
         [] k = <<TRUE, TRUE, FALSE>> ->
              Arr(<<F, F, F, arg1[0], arg1[1], arg1[2], arg1[3], arg1[4]>>)
         [] k = <<FALSE, FALSE, TRUE>> ->
              Arr(<<F, F, F, F, arg1[0], arg1[1], arg1[2], arg1[3]>>)
         [] k = <<TRUE, FALSE, TRUE>> ->
              Arr(<<F, F, F, F, F, arg1[0], arg1[1], arg1[2]>>)
         [] k = <<FALSE, TRUE, TRUE>> ->
              Arr(<<F, F, F, F, F, F, arg1[0], arg1[1]>>)
         [] k = <<TRUE, TRUE, TRUE>> ->
              Arr(<<F, F, F, F, F, F, F, arg1[0]>>)

\* AluOpcode::ShiftL: the match on the low three bits of arg2
alu_shift_l(arg1, arg2) ==
    LET F == FALSE
        k == <<arg2[0], arg2[1], arg2[2]>>
    IN CASE k = <<FALSE, FALSE, FALSE>> -> arg1
         [] k = <<TRUE, FALSE, FALSE>> ->
              Arr(<<F, arg1[0], arg1[1], arg1[2], arg1[3], arg1[4], arg1[5], arg1[6]>>)
         [] k = <<FALSE, TRUE, FALSE>> ->
              Arr(<<F, F, arg1[0], arg1[1], arg1[2], arg1[3], arg1[4], arg1[5]>>)
         [] k = <<TRUE, TRUE, FALSE>> ->
              Arr(<<F, F, F, arg1[0], arg1[1], arg1[2], arg1[3], arg1[4]>>)
         [] k = <<FALSE, FALSE, TRUE>> ->
              Arr(<<F, F, F, F, arg1[0], arg1[1], arg1[2], arg1[3]>>)
         [] k = <<TRUE, FALSE, TRUE>> ->
              Arr(<<F, F, F, F, F, arg1[0], arg1[1], arg1[2]>>)
         [] k = <<FALSE, TRUE, TRUE>> ->
              Arr(<<F, F, F, F, F, F, arg1[0], arg1[1]>>)
         [] k = <<TRUE, TRUE, TRUE>> ->
              Arr(<<F, F, F, F, F, F, F, arg1[0]>>)

\* mutant: a logical right shift, zeros shifted in
alu_shift_r_logical(arg1, arg2) ==
    LET n == (IF arg2[0] THEN 1 ELSE 0) + (IF arg2[1] THEN 2 ELSE 0)
             + (IF arg2[2] THEN 4 ELSE 0)
    IN [i \in 0..7 |-> IF i + n <= 7 THEN arg1[i + n] ELSE FALSE]

\* AluOpcode::ShiftR: the match on the low three bits of arg2
alu_shift_r(arg1, arg2) ==
    LET k == <<arg2[0], arg2[1], arg2[2]>>
    IN CASE k = <<FALSE, FALSE, FALSE>> -> arg1
         [] k = <<TRUE, FALSE, FALSE>> ->
              Arr(<<arg1[1], arg1[2], arg1[3], arg1[4], arg1[5], arg1[6], arg1[7], arg1[7]>>)
         [] k = <<FALSE, TRUE, FALSE>> ->
              Arr(<<arg1[2], arg1[3], arg1[4], arg1[5], arg1[6], arg1[7], arg1[7], arg1[7]>>)
         [] k = <<TRUE, TRUE, FALSE>> ->
              Arr(<<arg1[3], arg1[4], arg1[5], arg1[6], arg1[7], arg1[7], arg1[7], arg1[7]>>)
         [] k = <<FALSE, FALSE, TRUE>> ->
              Arr(<<arg1[4], arg1[5], arg1[6], arg1[7], arg1[7], arg1[7], arg1[7], arg1[7]>>)
         [] k = <<TRUE, FALSE, TRUE>> ->
              Arr(<<arg1[5], arg1[6], arg1[7], arg1[7], arg1[7], arg1[7], arg1[7], arg1[7]>>)
         [] k = <<FALSE, TRUE, TRUE>> ->
              Arr(<<arg1[6], arg1[7], arg1[7], arg1[7], arg1[7], arg1[7], arg1[7], arg1[7]>>)
         [] k = <<TRUE, TRUE, TRUE>> ->
              Arr(<<arg1[7], arg1[7], arg1[7], arg1[7], arg1[7], arg1[7], arg1[7], arg1[7]>>)

\* the `match op` of the ALU arm: the byte written to out, and the (unsigned, signed)
\* overflow pair when the arm assigns the two overflow flags (<<>> when it does not)
alu_op(op, arg1, arg2, arg1_value) ==
    LET added(r) == [value |-> from_bytes(r[1]), ofl |-> <<r[2], r[3]>>]
        plain(o) == [value |-> from_bytes(o), ofl |-> <<>>]
        one == Arr(<<TRUE, FALSE, FALSE, FALSE, FALSE, FALSE, FALSE, FALSE>>)
        ones == Arr(<<TRUE, TRUE, TRUE, TRUE, TRUE, TRUE, TRUE, TRUE>>)
        not2 == [i \in 0..7 |-> ~arg2[i]]
    IN CASE op = "Add" -> added(add_8bit(arg1, arg2, FALSE))
         [] op = "AddCarry" -> added(add_8bit(arg1, arg2, TRUE))
         [] op = "Incr" -> added(add_8bit(arg1, one, FALSE))
         [] op = "Decr" -> added(add_8bit(arg1, ones, FALSE))
         [] op = "Xor" -> plain([i \in 0..7 |-> arg1[i] # arg2[i]])
         [] op = "Neg" -> plain([i \in 0..7 |-> ~arg2[i]])
         [] op = "Sub" -> added(add_8bit(arg1, not2, TRUE))
         [] op = "Or" -> plain([i \in 0..7 |-> arg1[i] \/ arg2[i]])
         [] op = "And" -> plain([i \in 0..7 |-> arg1[i] /\ arg2[i]])
         [] op = "Nand" -> plain([i \in 0..7 |-> ~(arg1[i] /\ arg2[i])])
         [] op = "Nor" -> plain([i \in 0..7 |-> ~(arg1[i] \/ arg2[i])])
         [] op = "ShiftL" -> plain(alu_shift_l(arg1, arg2))
         [] op = "ShiftR" -> plain(alu_shift_r(arg1, arg2))
         [] op = "Echo" -> [value |-> arg1_value, ofl |-> <<>>]

\* self.flags.equal: the fold over the eight bits
alu_equal(arg1, arg2) == \A i \in 0..7 : arg1[i] = arg2[i]

\* the greater-than loops: iterations i..7 over bits 7-i, from the running
\* (greater_than, not_greater_than) pair
RECURSIVE greater_loop(_, _, _, _, _)
greater_loop(arg1, arg2, i, greater_than, not_greater_than) ==
    IF i > 7 THEN greater_than
    ELSE greater_loop(arg1, arg2, i + 1,
             greater_than \/ (arg1[7 - i] /\ ~arg2[7 - i] /\ ~not_greater_than),
             not_greater_than \/ (~arg1[7 - i] /\ arg2[7 - i]))

\* self.flags.greater_than
alu_greater_than(arg1, arg2) == greater_loop(arg1, arg2, 0, FALSE, FALSE)

\* mutant: the signed comparison made like the unsigned one
alu_greater_than_signed_as_unsigned(arg1, arg2) ==
    greater_loop(arg1, arg2, 0, FALSE, FALSE)

\* self.flags.greater_than_signed
alu_greater_than_signed(arg1, arg2) ==
    greater_loop(arg1, arg2, 1, ~arg1[7] /\ arg2[7], arg1[7] /\ ~arg2[7])

\* mutant: less_or_equal derived from greater_or_equal instead of greater_than
alu_flags_le_from_ge(f, arg1, arg2, out_value) ==
    LET equal == alu_equal(arg1, arg2)
        greater_than == alu_greater_than(arg1, arg2)
        greater_than_signed == alu_greater_than_signed(arg1, arg2)
        greater_or_equal == greater_than \/ equal
        greater_or_equal_signed == greater_than_signed \/ equal
    IN [f EXCEPT !.eq_zero = (out_value = 0),
                 !.equal = equal,
                 !.not_equal = ~equal,
                 !.greater_than = greater_than,
                 !.greater_than_signed = greater_than_signed,
                 !.greater_or_equal = greater_or_equal,
                 !.greater_or_equal_signed = greater_or_equal_signed,
                 !.less_than = ~greater_or_equal,
                 !.less_than_signed = ~greater_or_equal_signed,
                 !.less_or_equal = ~greater_or_equal,
                 !.less_or_equal_signed = ~greater_than_signed]

\* mutant: eq_zero kept once set
alu_flags_sticky_zero(f, arg1, arg2, out_value) ==
    LET equal == alu_equal(arg1, arg2)
        greater_than == alu_greater_than(arg1, arg2)
        greater_than_signed == alu_greater_than_signed(arg1, arg2)
        greater_or_equal == greater_than \/ equal
        greater_or_equal_signed == greater_than_signed \/ equal
    IN [f EXCEPT !.eq_zero = (f.eq_zero \/ out_value = 0),
                 !.equal = equal,
                 !.not_equal = ~equal,
                 !.greater_than = greater_than,
                 !.greater_than_signed = greater_than_signed,
                 !.greater_or_equal = greater_or_equal,
                 !.greater_or_equal_signed = greater_or_equal_signed,
                 !.less_than = ~greater_or_equal,
                 !.less_than_signed = ~greater_or_equal_signed,
                 !.less_or_equal = ~greater_than,
                 !.less_or_equal_signed = ~greater_than_signed]

\* the flag assignments that follow the `match op`
alu_flags(f, arg1, arg2, out_value) ==
    LET equal == alu_equal(arg1, arg2)
        greater_than == alu_greater_than(arg1, arg2)
        greater_than_signed == alu_greater_than_signed(arg1, arg2)
        greater_or_equal == greater_than \/ equal
        greater_or_equal_signed == greater_than_signed \/ equal
    IN [f EXCEPT !.eq_zero = (out_value = 0),
                 !.equal = equal,
                 !.not_equal = ~equal,
                 !.greater_than = greater_than,
                 !.greater_than_signed = greater_than_signed,
                 !.greater_or_equal = greater_or_equal,
                 !.greater_or_equal_signed = greater_or_equal_signed,
                 !.less_than = ~greater_or_equal,
                 !.less_than_signed = ~greater_or_equal_signed,
                 !.less_or_equal = ~greater_than,
                 !.less_or_equal_signed = ~greater_than_signed]

\* step(): the Instruction::Alu arm
step_alu(m, ins) ==
    LET arg1 == to_bytes(Registers_get(m.registers, ins.arg1))
        arg2 == to_bytes(Registers_get(m.registers, ins.arg2))
        r == alu_op(ins.op, arg1, arg2, Registers_get(m.registers, ins.arg1))
        regs == Registers_set(m.registers, ins.out, r.value)
        f1 == IF r.ofl = <<>> THEN m.flags
              ELSE [m.flags EXCEPT !.overflow_unsigned = r.ofl[1],
                                   !.overflow_signed = r.ofl[2]]
        f2 == alu_flags(f1, arg1, arg2, Registers_get(regs, ins.out))
    IN advance([m EXCEPT !.registers = regs, !.flags = f2])

\* step(): the Instruction::Stack arm
\* mutant: SLOAD addresses relative to ST
step_stack_sload_from_st(m, s) ==
    CASE s.kind = "Ret" ->
           LET current_bp == read_register(m, "BP")
               m1 == [m EXCEPT !.registers = Registers_set(m.registers, "ST", current_bp)]
               p1 == stack_pop(m1)
               stored_bp == p1.result
               p2 == stack_pop(p1.m)
               stored_ip == p2.result
               m3 == [p2.m EXCEPT !.registers = Registers_set(p2.m.registers, "BP", stored_bp)]
               m4 == stack_push(m3, read_register(m3, s.src))
           IN set_eip_plus_2(m4, stored_ip)
      [] s.kind = "Push" -> advance(stack_push(m, read_register(m, s.src)))
      [] s.kind = "Pop" ->
           LET p == stack_pop(m)
           IN advance([p.m EXCEPT !.registers = Registers_set(p.m.registers, s.dest, p.result)])
      [] s.kind = "Call" -> call(m, read_register(m, s.addr_reg))
      [] s.kind = "CallC" -> call(m, s.addr)
      [] s.kind = "CallR" -> call(m, add_i16_as_u8(m.eip, s.diff))
      [] s.kind = "Load" ->
           LET current_bp == read_register(m, "ST")
               load_addr == (current_bp + s.bp_diff + 256) % 256
           IN advance([m EXCEPT !.registers =
                          Registers_set(m.registers, s.dest, m.memory[load_addr])])

step_stack(m, s) ==
    CASE s.kind = "Ret" ->
           LET current_bp == read_register(m, "BP")
               m1 == [m EXCEPT !.registers = Registers_set(m.registers, "ST", current_bp)]
               p1 == stack_pop(m1)
               stored_bp == p1.result
               p2 == stack_pop(p1.m)
               stored_ip == p2.result
               m3 == [p2.m EXCEPT !.registers = Registers_set(p2.m.registers, "BP", stored_bp)]
               m4 == stack_push(m3, read_register(m3, s.src))
           IN set_eip_plus_2(m4, stored_ip)
      [] s.kind = "Push" -> advance(stack_push(m, read_register(m, s.src)))
      [] s.kind = "Pop" ->
           LET p == stack_pop(m)
           IN advance([p.m EXCEPT !.registers = Registers_set(p.m.registers, s.dest, p.result)])
      [] s.kind = "Call" -> call(m, read_register(m, s.addr_reg))
      [] s.kind = "CallC" -> call(m, s.addr)
      [] s.kind = "CallR" -> call(m, add_i16_as_u8(m.eip, s.diff))
      [] s.kind = "Load" ->
           LET current_bp == read_register(m, "BP")
               load_addr == (current_bp + s.bp_diff + 256) % 256
           IN advance([m EXCEPT !.registers =
                          Registers_set(m.registers, s.dest, m.memory[load_addr])])

\* mutant: HALT advances eip like NOP
execute_halt_advances(m, ins) ==
    CASE ins.kind = "Load" ->
           advance([m EXCEPT !.registers = Registers_set(m.registers, ins.dest, m.memory[ins.addr])])
      [] ins.kind = "LoadP" ->
           advance([m EXCEPT !.registers =
               Registers_set(m.registers, ins.dest, m.memory[read_register(m, ins.addr_src)])])
      [] ins.kind = "Store" ->
           advance([m EXCEPT !.memory = [m.memory EXCEPT ![ins.addr] = read_register(m, ins.src)]])
      [] ins.kind = "StoreP" ->
           LET mem_index == read_register(m, ins.addr_src)
           IN advance([m EXCEPT !.memory =
                  [m.memory EXCEPT ![mem_index] = read_register(m, ins.src)]])
      [] ins.kind = "Mov" ->
           advance([m EXCEPT !.registers =
               Registers_set(m.registers, ins.dest, read_register(m, ins.src))])
      [] ins.kind = "MovC" ->
           advance([m EXCEPT !.registers = Registers_set(m.registers, ins.dest, ins.val)])
      [] ins.kind = "Jmp" ->
           IF AluFlags_get(m.flags, ins.flag) THEN [m EXCEPT !.eip = ins.addr]
           ELSE advance(m)
      [] ins.kind = "JmpP" ->
           IF AluFlags_get(m.flags, ins.flag)
           THEN [m EXCEPT !.eip = m.memory[read_register(m, ins.addr_src)]]
           ELSE advance(m)
      [] ins.kind = "JmpR" ->
           IF AluFlags_get(m.flags, ins.flag)
           THEN [m EXCEPT !.eip = add_i16_as_u8(m.eip, ins.diff)]
           ELSE advance(m)
      [] ins.kind = "JmpRP" ->
           IF AluFlags_get(m.flags, ins.flag)
           THEN [m EXCEPT !.eip =
                    add_i16_as_u8(m.eip, m.memory[read_register(m, ins.diff_src)])]
           ELSE advance(m)
      [] ins.kind = "Stack" -> step_stack(m, ins.stack_ins)
      [] ins.kind = "Gpi" ->
           advance([m EXCEPT !.registers = Registers_set(m.registers, ins.dest, m.reg_i)])
      [] ins.kind = "Gpo" ->
           advance([m EXCEPT !.reg_o = read_register(m, ins.src)])
      [] ins.kind = "Alu" -> step_alu(m, ins)
      [] ins.kind = "Nop" ->
           advance(m)

\* mutant: STORE and STOREP read src after eip has advanced
execute_store_after_advance(m, ins) ==
    CASE ins.kind = "Load" ->
           advance([m EXCEPT !.registers = Registers_set(m.registers, ins.dest, m.memory[ins.addr])])
      [] ins.kind = "LoadP" ->
           advance([m EXCEPT !.registers =
               Registers_set(m.registers, ins.dest, m.memory[read_register(m, ins.addr_src)])])
      [] ins.kind = "Store" ->
           LET n == advance(m)
           IN [n EXCEPT !.memory = [n.memory EXCEPT ![ins.addr] = read_register(n, ins.src)]]
      [] ins.kind = "StoreP" ->
           LET n == advance(m)
               mem_index == read_register(m, ins.addr_src)
           IN [n EXCEPT !.memory =
                  [n.memory EXCEPT ![mem_index] = read_register(n, ins.src)]]
      [] ins.kind = "Mov" ->
           advance([m EXCEPT !.registers =
               Registers_set(m.registers, ins.dest, read_register(m, ins.src))])
      [] ins.kind = "MovC" ->
           advance([m EXCEPT !.registers = Registers_set(m.registers, ins.dest, ins.val)])
      [] ins.kind = "Jmp" ->
           IF AluFlags_get(m.flags, ins.flag) THEN [m EXCEPT !.eip = ins.addr]
           ELSE advance(m)
      [] ins.kind = "JmpP" ->
           IF AluFlags_get(m.flags, ins.flag)
           THEN [m EXCEPT !.eip = m.memory[read_register(m, ins.addr_src)]]
           ELSE advance(m)
      [] ins.kind = "JmpR" ->
           IF AluFlags_get(m.flags, ins.flag)
           THEN [m EXCEPT !.eip = add_i16_as_u8(m.eip, ins.diff)]
           ELSE advance(m)
      [] ins.kind = "JmpRP" ->
           IF AluFlags_get(m.flags, ins.flag)
           THEN [m EXCEPT !.eip =
                    add_i16_as_u8(m.eip, m.memory[read_register(m, ins.diff_src)])]
           ELSE advance(m)
      [] ins.kind = "Stack" -> step_stack(m, ins.stack_ins)
      [] ins.kind = "Gpi" ->
           advance([m EXCEPT !.registers = Registers_set(m.registers, ins.dest, m.reg_i)])
      [] ins.kind = "Gpo" ->
           advance([m EXCEPT !.reg_o = read_register(m, ins.src)])
      [] ins.kind = "Alu" -> step_alu(m, ins)
      [] ins.kind = "Nop" ->
           IF ins.nopcode = "Nop" THEN advance(m) ELSE m

\* mutant: GPO puts the input port on the output port
execute_gpo_echoes_input(m, ins) ==
    CASE ins.kind = "Load" ->
           advance([m EXCEPT !.registers = Registers_set(m.registers, ins.dest, m.memory[ins.addr])])
      [] ins.kind = "LoadP" ->
           advance([m EXCEPT !.registers =
               Registers_set(m.registers, ins.dest, m.memory[read_register(m, ins.addr_src)])])
      [] ins.kind = "Store" ->
           advance([m EXCEPT !.memory = [m.memory EXCEPT ![ins.addr] = read_register(m, ins.src)]])
      [] ins.kind = "StoreP" ->
           LET mem_index == read_register(m, ins.addr_src)
           IN advance([m EXCEPT !.memory =
                  [m.memory EXCEPT ![mem_index] = read_register(m, ins.src)]])
      [] ins.kind = "Mov" ->
           advance([m EXCEPT !.registers =
               Registers_set(m.registers, ins.dest, read_register(m, ins.src))])
      [] ins.kind = "MovC" ->
           advance([m EXCEPT !.registers = Registers_set(m.registers, ins.dest, ins.val)])
      [] ins.kind = "Jmp" ->
           IF AluFlags_get(m.flags, ins.flag) THEN [m EXCEPT !.eip = ins.addr]
           ELSE advance(m)
      [] ins.kind = "JmpP" ->
           IF AluFlags_get(m.flags, ins.flag)
           THEN [m EXCEPT !.eip = m.memory[read_register(m, ins.addr_src)]]
           ELSE advance(m)
      [] ins.kind = "JmpR" ->
           IF AluFlags_get(m.flags, ins.flag)
           THEN [m EXCEPT !.eip = add_i16_as_u8(m.eip, ins.diff)]
           ELSE advance(m)
      [] ins.kind = "JmpRP" ->
           IF AluFlags_get(m.flags, ins.flag)
           THEN [m EXCEPT !.eip =
                    add_i16_as_u8(m.eip, m.memory[read_register(m, ins.diff_src)])]
           ELSE advance(m)
      [] ins.kind = "Stack" -> step_stack(m, ins.stack_ins)
      [] ins.kind = "Gpi" ->
           advance([m EXCEPT !.registers = Registers_set(m.registers, ins.dest, m.reg_i)])
      [] ins.kind = "Gpo" ->
           advance([m EXCEPT !.reg_o = m.reg_i])
      [] ins.kind = "Alu" -> step_alu(m, ins)
      [] ins.kind = "Nop" ->
           IF ins.nopcode = "Nop" THEN advance(m) ELSE m

\* step(): the `match instruction`
execute(m, ins) ==
    CASE ins.kind = "Load" ->
           advance([m EXCEPT !.registers = Registers_set(m.registers, ins.dest, m.memory[ins.addr])])
      [] ins.kind = "LoadP" ->
           advance([m EXCEPT !.registers =
               Registers_set(m.registers, ins.dest, m.memory[read_register(m, ins.addr_src)])])
      [] ins.kind = "Store" ->
           advance([m EXCEPT !.memory = [m.memory EXCEPT ![ins.addr] = read_register(m, ins.src)]])
      [] ins.kind = "StoreP" ->
           LET mem_index == read_register(m, ins.addr_src)
           IN advance([m EXCEPT !.memory =
                  [m.memory EXCEPT ![mem_index] = read_register(m, ins.src)]])
      [] ins.kind = "Mov" ->
           advance([m EXCEPT !.registers =
               Registers_set(m.registers, ins.dest, read_register(m, ins.src))])
      [] ins.kind = "MovC" ->
           advance([m EXCEPT !.registers = Registers_set(m.registers, ins.dest, ins.val)])
      [] ins.kind = "Jmp" ->
           IF AluFlags_get(m.flags, ins.flag) THEN [m EXCEPT !.eip = ins.addr]
           ELSE advance(m)
      [] ins.kind = "JmpP" ->
           IF AluFlags_get(m.flags, ins.flag)
           THEN [m EXCEPT !.eip = m.memory[read_register(m, ins.addr_src)]]
           ELSE advance(m)
      [] ins.kind = "JmpR" ->
           IF AluFlags_get(m.flags, ins.flag)
           THEN [m EXCEPT !.eip = add_i16_as_u8(m.eip, ins.diff)]
           ELSE advance(m)
      [] ins.kind = "JmpRP" ->
           IF AluFlags_get(m.flags, ins.flag)
           THEN [m EXCEPT !.eip =
                    add_i16_as_u8(m.eip, m.memory[read_register(m, ins.diff_src)])]
           ELSE advance(m)
      [] ins.kind = "Stack" -> step_stack(m, ins.stack_ins)
      [] ins.kind = "Gpi" ->
           advance([m EXCEPT !.registers = Registers_set(m.registers, ins.dest, m.reg_i)])
      [] ins.kind = "Gpo" ->
           advance([m EXCEPT !.reg_o = read_register(m, ins.src)])
      [] ins.kind = "Alu" -> step_alu(m, ins)
      [] ins.kind = "Nop" ->
           IF ins.nopcode = "Nop" THEN advance(m) ELSE m

\* mutant: the two bytes taken from the data memory
fetch_from_memory(m) ==
    Instruction_try_from(m.memory[m.eip], m.memory[(m.eip + 1) % 256])

\* mutant: for opcode 0 the low nibble of the first byte has to be 0
fetch_strict_nop(m) ==
    IF m.eip + 1 >= Len(program) THEN Err("index out of bounds", m.eip)
    ELSE IF program[m.eip + 1] \in 1..15 THEN Err("Invalid NOP", program[m.eip + 1])
    ELSE Instruction_try_from(program[m.eip + 1], program[m.eip + 2])

\* the fetch of step() and is_halted(): program[eip], program[eip + 1] decoded;
\* an index past the end of the program Vec panics
fetch(m) ==
    IF m.eip + 1 >= Len(program) THEN Err("index out of bounds", m.eip)
    ELSE Instruction_try_from(program[m.eip + 1], program[m.eip + 2])

\* mutant: a fetch that fails is skipped
step_skips_undecodable(m) ==
    LET instruction == fetch(m)
    IN IF ~instruction.ok THEN advance(m) ELSE execute(m, instruction.val)

\* mutant: the input port is cleared by every step
step_consumes_input(m) ==
    LET instruction == fetch(m)
    IN IF ~instruction.ok THEN panic(m)
       ELSE [execute(m, instruction.val) EXCEPT !.reg_i = 0]

\* LegComputer::step: the unwrap() panics on a fetch that fails
step(m) ==
    LET instruction == fetch(m)
    IN IF ~instruction.ok THEN panic(m) ELSE execute(m, instruction.val)

\* mutant: NOP taken for HALT as well
is_halted_any_nop(m) ==
    LET instruction == fetch(m)
    IN instruction.ok /\ instruction.val.kind = "Nop"

\* mutant: an unconditional jump to its own address counts as halted
is_halted_on_self_jump(m) ==
    LET instruction == fetch(m)
    IN instruction.ok
       /\ (\/ instruction.val = Nop("Halt")
           \/ instruction.val = Jmp("True", m.eip)
           \/ instruction.val = JmpR("True", 0))

\* LegComputer::is_halted (meaningful when the fetch succeeds)
is_halted(m) ==
    LET instruction == fetch(m)
    IN instruction.ok /\ instruction.val = Nop("Halt")

(***************************************************************************)
(* Programs and memories the machine is constructed from.                   *)
(***************************************************************************)
\* generate_code: b1, b2 of each instruction in order
generate_code(prog) ==
    [k \in 1..(2 * Len(prog)) |->
        Instruction_into(prog[(k + 1) \div 2])[IF k % 2 = 1 THEN 1 ELSE 2]]

\* vec![0; 256]
ZeroMemory == [a \in Byte |-> 0]

\* a 256-byte program Vec: `head` at address 0, `body` at address base, zeros elsewhere
image(head, base, body) ==
    LET h == generate_code(head)
        b == generate_code(body)
    IN [k \in 1..256 |->
          IF k <= Len(h) THEN h[k]
          ELSE IF k > base /\ k <= base + Len(b) THEN b[k - base]
          ELSE 0]

\* sampled bytes: those within SampleSpan of 0, of the sign change at 128, and of 256
Vals == {v \in Byte : v <= SampleSpan \/ v >= 256 - SampleSpan
                      \/ (v >= 128 - SampleSpan /\ v <= 128 + SampleSpan)}

\* ALU operands: the sampled bytes, two mixed bit patterns, every shift count up to 8
AluArg1 == Vals \cup {85, 150}
AluArg2 == Vals \cup (2..8) \cup {51}

\* MOVC a => A; MOVC b => B; ALU op A B => out
AluProgram(a, b, op, out) ==
    generate_code(<<MovC("A", a), MovC("B", b), Alu(op, "A", "B", out)>>)

\* every operand pair with a separate out register, the sampled pairs with out = arg1
\* and with out = arg2
AluPrograms ==
    {AluProgram(a, b, op, "C") : a \in AluArg1, b \in AluArg2, op \in AluOpcode}
    \cup {AluProgram(a, b, op, out) :
            a \in Vals, b \in Vals, op \in AluOpcode, out \in {"A", "B"}}

\* one or two instructions of every kind that is no jump, call, ret or halt
StraightPool ==
    {Load("A", 255), LoadP("B", "ST"), Store("IP", 1), StoreP("FL", "A"),
     Mov("C", "IP"), Mov("ST", "A"), MovC("B", 129), MovC("BP", 255),
     Stack(SPush("A")), Stack(SPush("ST")), Stack(SPop("B")), Stack(SPop("ST")),
     Stack(SLoad("C", 255)), Gpi("D"), Gpo("IP"),
     Mov("D", "FL"), Stack(SPush("IP")), Gpo("FL"),
     Alu("Decr", "A", "B", "A"), Alu("Xor", "B", "B", "C"), Nop("Nop")}

\* JMP T ? base, then two straight-line instructions at base
StraightPrograms ==
    {image(<<Jmp("True", base)>>, base, <<x, y>>) :
        base \in {2, 252}, x \in StraightPool, y \in StraightPool}

\* MOVC s => ST; MOVC v => r; PUSH src; POP dest; HALT
StackPrograms ==
    {generate_code(<<MovC("ST", s), MovC(r, v), Stack(SPush(src)), Stack(SPop(dest)),
                     Nop("Halt")>>) :
        s \in Vals, r \in {"A", "BP"}, v \in {7, 254}, src \in RegisterRef,
        dest \in GeneralRegisterRef}

\* the three calls of target t made at address p
Calls(p, t) ==
    {Stack(SCall("D")), Stack(SCallC(t)), Stack(SCallR((t + 256 - p) % 256))}

\* callee bodies that end in RET src
Callees(src) ==
    {<<Stack(SRet(src))>>,
     <<Stack(SPush("D")), Stack(SRet(src))>>,
     <<MovC("BP", 200), Stack(SRet(src))>>}

\* where the callees are placed
CalleeAt == 100

\* MOVC s => ST; MOVC b => BP; MOVC CalleeAt => D; JMP T ? p, the call at p, the callee
\* at CalleeAt
CallProgram(s, b, p, c, body) ==
    LET caller == image(<<MovC("ST", s), MovC("BP", b), MovC("D", CalleeAt),
                          Jmp("True", p)>>, p, <<c>>)
        callee == generate_code(body)
    IN [k \in 1..256 |->
          IF k > CalleeAt /\ k <= CalleeAt + Len(callee) THEN callee[k - CalleeAt]
          ELSE caller[k]]

CallPrograms ==
    UNION {{CallProgram(s, b, p, c, body) :
                s \in Vals, b \in {0, 255}, c \in Calls(p, CalleeAt),
                body \in {<<Stack(SRet(src))>> : src \in RegisterRef}
                          \cup Callees("D") \cup Callees("ST")} :
           p \in {10, 254}}

\* MOVC f => BP; MOVC 9 => C; RET src; HALT, on a data memory whose cells f and f+1
\* hold a saved BP x and a saved ip y
RetConstructions ==
    {<<generate_code(<<MovC("BP", f), MovC("C", 9), Stack(SRet(src)), Nop("Halt")>>),
       [a \in Byte |-> IF a = f THEN x ELSE IF a = (f + 1) % 256 THEN y ELSE 0]>> :
        f \in Vals, src \in RegisterRef, x \in {0, 200}, y \in {0, 100, 253, 254, 255}}

\* operand pairs of the two-instruction ALU programs
AluPairArgs == {<<255, 1>>, <<1, 1>>, <<128, 128>>, <<0, 0>>}

\* MOVC a => A; MOVC b => B; ALU op1 A B => C; ALU op2 C B => D
AluPairPrograms ==
    {generate_code(<<MovC("A", ab[1]), MovC("B", ab[2]), Alu(op1, "A", "B", "C"),
                     Alu(op2, "C", "B", "D")>>) :
        ab \in AluPairArgs, op1 \in AluOpcode, op2 \in AluOpcode}

\* HALT first, other instructions after it
HaltFirstPrograms ==
    {generate_code(<<Nop("Halt"), x>>) :
        x \in {MovC("A", 1), Nop("Nop"), Stack(SPush("IP")), Jmp("True", 0)}}

\* NOP; JMP T ? t to an odd address of a 256-byte image, NOP bytes at t: cell 255 and
\* cell 0 both hold 0
OddJumpPrograms ==
    {image(<<Nop("Nop"), Jmp("True", t)>>, t, <<Nop("Nop")>>) : t \in {253, 255}}

\* stores over the data cells 8 and 9 the bytes of MOVC 77 => A, then runs through
\* address 8, where the program holds NOP
StoreOverCodeProgram ==
    generate_code(<<MovC("B", 96), Store("B", 8), MovC("C", 77), Store("C", 9),
                    Nop("Nop"), Nop("Halt")>>)

\* byte pairs no Instruction encodes to: opcodes 14 and 15, a NOP code that is neither
\* 0 nor 255, a register selector 4, a stack opcode 3
UndecodableWords == {<<224, 0>>, <<240, 7>>, <<0, 1>>, <<20, 0>>, <<179, 0>>}

\* MOVC 5 => A; ALU DECR A A => B; the undecodable pair; MOVC 9 => C; HALT
UndecodablePrograms ==
    {generate_code(<<MovC("A", 5), Alu("Decr", "A", "A", "B")>>) \o w
        \o generate_code(<<MovC("C", 9), Nop("Halt")>>) :
        w \in UndecodableWords}

\* the jumps under test: every flag, targets and diffs at both ends of the byte range
Jumps ==
    {Jmp(f, a) : f \in AluFlagRef, a \in {0, 255}}
    \cup {JmpR(f, d) : f \in AluFlagRef, d \in {0, 2, 127, 128, 254}}
    \cup {JmpP(f, "C") : f \in AluFlagRef}
    \cup {JmpRP(f, "C") : f \in AluFlagRef}

\* operands and operation of the ALU instruction that sets the flags before a jump
JumpFlagSetters ==
    {<<255, 1, "Add">>, <<1, 1, "Sub">>, <<128, 128, "Add">>, <<0, 0, "Decr">>,
     <<1, 255, "Sub">>}

\* a jump at address 0 of a 256-byte image, in the state new() leaves; and
\* MOVC a => A; MOVC b => B; ALU op A B => C; JMP T ? base, with the jump at base
JumpPrograms ==
    {image(<<j>>, 0, <<>>) : j \in Jumps}
    \cup {image(<<MovC("A", abo[1]), MovC("B", abo[2]), Alu(abo[3], "A", "B", "C"),
                  Jmp("True", base)>>, base, <<j>>) :
            abo \in JumpFlagSetters, base \in {8, 254}, j \in Jumps}

\* a data memory whose cells all differ: cell a holds 255 - a
DescendingMemory == [a \in Byte |-> 255 - a]

\* MOVC b => BP; MOVC 40 => ST; SLOAD d => r; HALT
SloadPrograms ==
    {generate_code(<<MovC("BP", b), MovC("ST", 40), Stack(SLoad(r, d)), Nop("Halt")>>) :
        b \in Vals \cup {100}, d \in Vals \cup {5, 250}, r \in GeneralRegisterRef}

\* instructions that are no ALU instruction, run with flags set: calls, RET, jumps
\* through a register, writes whose destination is FL or IP, HALT
FlagFramePool ==
    {Stack(SCall("A")), Stack(SCallC(6)), Stack(SCallR(4)), Stack(SRet("A")),
     Load("FL", 3), LoadP("IP", "A"), Mov("FL", "A"), Mov("IP", "A"), MovC("FL", 255),
     MovC("IP", 77), Stack(SPop("FL")), Stack(SPop("IP")), Gpi("FL"), Gpi("IP"),
     Nop("Halt")}

\* ALU INCR A A => A; x; NOP in a 256-byte image
FlagFramePrograms ==
    {image(<<Alu("Incr", "A", "A", "A"), x, Nop("Nop")>>, 0, <<>>) : x \in FlagFramePool}

\* the stores and the loads of the store/load programs
Stores ==
    {Store(src, a) : src \in {"A", "IP", "FL", "ST"}, a \in {0, 6, 255}}
    \cup {StoreP(src, q) : src \in {"A", "IP", "FL", "ST"}, q \in {"A", "B", "IP"}}

Loads ==
    {Load(r, a) : r \in {"A", "B", "C", "ST"}, a \in {0, 6, 255}}
    \cup {LoadP(r, q) : r \in {"A", "B", "C", "ST"}, q \in {"A", "B", "IP"}}

\* MOVC 77 => A; MOVC 255 => B; a store; a load; HALT
StoreLoadPrograms ==
    {generate_code(<<MovC("A", 77), MovC("B", 255), st, ld, Nop("Halt")>>) :
        st \in Stores, ld \in Loads}

\* MOVC v => C; a pointer jump through C or IP, run on the descending memory
PointerJumpPrograms ==
    {image(<<MovC("C", v), j>>, 0, <<>>) :
        v \in Vals \cup {40},
        j \in {JmpP(f, r) : f \in {"True", "False"}, r \in {"C", "IP"}}
              \cup {JmpRP(f, r) : f \in {"True", "False"}, r \in {"C", "IP"}}}

\* the instructions whose destination register is FL or IP
ReadOnlyWrites ==
    {Load("FL", 3), Load("IP", 3), LoadP("FL", "A"), LoadP("IP", "A"),
     Mov("FL", "A"), Mov("IP", "A"), MovC("FL", 255), MovC("IP", 77),
     Stack(SPop("FL")), Stack(SPop("IP")), Gpi("FL"), Gpi("IP")}

\* ALU INCR A A => A; a write to FL or IP; MOV FL => B; MOV IP => C; HALT
ReadOnlyWritePrograms ==
    {generate_code(<<Alu("Incr", "A", "A", "A"), w, Mov("B", "FL"), Mov("C", "IP"),
                     Nop("Halt")>>) :
        w \in ReadOnlyWrites}

\* four raw bytes: (x, 255) then (y, 0), x and y below 16, so both have opcode nibble 0
RawNopPrograms == {<<x, 255, y, 0>> : x \in 0..15, y \in 0..15}

\* the (program, memory) pairs LegComputer::new is called with
Constructions ==
    ((AluPrograms \cup AluPairPrograms \cup StraightPrograms \cup StackPrograms
        \cup CallPrograms \cup HaltFirstPrograms \cup OddJumpPrograms
        \cup {StoreOverCodeProgram} \cup UndecodablePrograms \cup JumpPrograms
        \cup FlagFramePrograms \cup StoreLoadPrograms \cup ReadOnlyWritePrograms
        \cup RawNopPrograms)
        \X {ZeroMemory})
    \cup RetConstructions
    \cup ((SloadPrograms \cup PointerJumpPrograms) \X {DescendingMemory})

(***************************************************************************)
(* The state machine.                                                       *)
(***************************************************************************)
NoInstruction == [kind |-> "none"]
NoFrame == [live |-> FALSE, p |-> 0, b |-> 0, s |-> 0]

\* the machine right after LegComputer::new(program, memory)
InitMachine(prog, mem) ==
    LET m == LegComputer_new(mem)
    IN /\ program = prog
       /\ eip = m.eip
       /\ memory = m.memory
       /\ flags = m.flags
       /\ registers = m.registers
       /\ reg_i = m.reg_i
       /\ reg_o = m.reg_o
       /\ panicked = m.panicked
       /\ steps = 0
       /\ hist = <<>>
       /\ frame = NoFrame
       /\ alu_ran = FALSE

Init ==
    /\ \E c \in Constructions : InitMachine(c[1], c[2])
    /\ overflow_checks \in BOOLEAN
    /\ c_pc = "idle"
    /\ c_ins = NoInstruction
    /\ c_words = <<>>
    /\ c_back = Err("none", 0)

\* one call of step() by the host; a step that fetches HALT changes nothing and is
\* not counted in steps
Step ==
    /\ c_pc = "idle"
    /\ ~panicked
    /\ steps < MaxSteps
    /\ LET m == Self
           f == fetch(m)
           n == step(m)
           ins == IF f.ok THEN f.val ELSE NoInstruction
       IN /\ eip' = n.eip
          /\ memory' = n.memory
          /\ flags' = n.flags
          /\ registers' = n.registers
          /\ reg_i' = n.reg_i
          /\ reg_o' = n.reg_o
          /\ panicked' = n.panicked
          /\ steps' = IF ins = Nop("Halt") THEN steps ELSE steps + 1
          /\ hist' = <<[pre |-> m, ins |-> ins]>> \o (IF hist = <<>> THEN <<>> ELSE <<hist[1]>>)
          /\ frame' = IF ins.kind = "Stack" /\ ins.stack_ins.kind = "CallC"
                      THEN [live |-> TRUE, p |-> m.eip, b |-> read_register(m, "BP"),
                            s |-> read_register(m, "ST")]
                      ELSE frame
          /\ alu_ran' = (alu_ran \/ ins.kind = "Alu")
    /\ UNCHANGED <<program, overflow_checks, codec_vars>>

Next == Step

Spec == Init /\ [][Next]_vars

(***************************************************************************)
(* LegComputer::run: `while !self.is_halted() { self.step(); }`, one loop    *)
(* iteration per RunStep, the return of self as RunReturn.                  *)
(***************************************************************************)
\* the (program, memory) pairs run() is called on
RunConstructions ==
    (StraightPrograms \cup StackPrograms \cup AluPairPrograms \cup HaltFirstPrograms
        \cup OddJumpPrograms \cup {StoreOverCodeProgram} \cup UndecodablePrograms
        \cup RawNopPrograms)
    \X {ZeroMemory}

InitRun ==
    /\ \E c \in RunConstructions : InitMachine(c[1], c[2])
    /\ overflow_checks \in BOOLEAN
    /\ c_pc = "running"
    /\ c_ins = NoInstruction
    /\ c_words = <<>>
    /\ c_back = Err("none", 0)

\* is_halted() answered false (or panicked in its fetch, as step() then does): step()
RunStep ==
    /\ c_pc = "running"
    /\ ~panicked
    /\ steps < MaxSteps
    /\ ~is_halted(Self)
    /\ LET m == Self
           f == fetch(m)
           n == step(m)
           ins == IF f.ok THEN f.val ELSE NoInstruction
       IN /\ eip' = n.eip
          /\ memory' = n.memory
          /\ flags' = n.flags
          /\ registers' = n.registers
          /\ reg_i' = n.reg_i
          /\ reg_o' = n.reg_o
          /\ panicked' = n.panicked
          /\ steps' = steps + 1
          /\ hist' = <<[pre |-> m, ins |-> ins]>> \o (IF hist = <<>> THEN <<>> ELSE <<hist[1]>>)
          /\ frame' = frame
          /\ alu_ran' = (alu_ran \/ ins.kind = "Alu")
    /\ UNCHANGED <<program, overflow_checks, codec_vars>>

\* is_halted() answered true: the loop ends and run() returns self
RunReturn ==
    /\ c_pc = "running"
    /\ ~panicked
    /\ is_halted(Self)
    /\ c_pc' = "returned"
    /\ UNCHANGED <<machine_vars, c_ins, c_words, c_back>>

NextRun == RunStep \/ RunReturn

SpecRun == InitRun /\ [][NextRun]_vars

(***************************************************************************)
(* Long runs: run() on whole programs, up to LongSteps loop iterations.     *)
(***************************************************************************)
LongSteps == 150

\* the program of tests/fibonacci.rs as assemble_program yields it (-20 is the byte 236)
FibonacciInstructions ==
    <<MovC("A", 0), MovC("D", 100), StoreP("A", "D"), Alu("Incr", "D", "D", "D"),
      MovC("B", 1), StoreP("B", "D"),
      LoadP("B", "D"), Alu("Decr", "D", "D", "D"), LoadP("A", "D"),
      Alu("Add", "A", "B", "C"),
      JmpR("OverflowUnsigned", 14),
      Alu("Incr", "D", "D", "D"), Alu("Incr", "D", "D", "D"), StoreP("C", "D"),
      MovC("A", 0), Alu("Echo", "A", "A", "A"), JmpR("EqZero", 236),
      Nop("Halt")>>

FibonacciProgram == generate_code(FibonacciInstructions)

\* the program of tests/nop.rs: MOVC 1 => A; 17 NOP; MOVC 2 => B; HALT
NopTestProgram ==
    generate_code(<<MovC("A", 1)>> \o [i \in 1..17 |-> Nop("Nop")]
                  \o <<MovC("B", 2), Nop("Halt")>>)

\* 127 NOP and a HALT: the longest straight-line program a 256-byte Vec holds
NopFillProgram == generate_code([i \in 1..127 |-> Nop("Nop")] \o <<Nop("Halt")>>)

\* the one-instruction programs JMP T ? 0 and JMPR T ? 0
SelfJumpPrograms == {generate_code(<<Jmp("True", 0)>>), generate_code(<<JmpR("True", 0)>>)}

\* the (program, memory) pairs of the long runs
LongConstructions ==
    (({FibonacciProgram, NopTestProgram, NopFillProgram, StoreOverCodeProgram}
        \cup StackPrograms \cup StoreLoadPrograms \cup SelfJumpPrograms) \X {ZeroMemory})
    \cup (SloadPrograms \X {DescendingMemory})

InitLong ==
    /\ \E c \in LongConstructions : InitMachine(c[1], c[2])
    /\ overflow_checks \in BOOLEAN
    /\ c_pc = "long"
    /\ c_ins = NoInstruction
    /\ c_words = <<>>
    /\ c_back = Err("none", 0)

\* is_halted() answered false: step()
LongStep ==
    /\ c_pc = "long"
    /\ ~panicked
    /\ steps < LongSteps
    /\ ~is_halted(Self)
    /\ LET m == Self
           f == fetch(m)
           n == step(m)
           ins == IF f.ok THEN f.val ELSE NoInstruction
       IN /\ eip' = n.eip
          /\ memory' = n.memory
          /\ flags' = n.flags
          /\ registers' = n.registers
          /\ reg_i' = n.reg_i
          /\ reg_o' = n.reg_o
          /\ panicked' = n.panicked
          /\ steps' = steps + 1
          /\ hist' = <<[pre |-> m, ins |-> ins]>> \o (IF hist = <<>> THEN <<>> ELSE <<hist[1]>>)
          /\ frame' = frame
          /\ alu_ran' = (alu_ran \/ ins.kind = "Alu")
    /\ UNCHANGED <<program, overflow_checks, codec_vars>>

\* is_halted() answered true: run() returns self
LongReturn ==
    /\ c_pc = "long"
    /\ ~panicked
    /\ is_halted(Self)
    /\ c_pc' = "long_returned"
    /\ UNCHANGED <<machine_vars, c_ins, c_words, c_back>>

NextLong == LongStep \/ LongReturn

SpecLong == InitLong /\ [][NextLong]_vars

(***************************************************************************)
(* The host drives the ports: reg_i is a pub field the host assigns between *)
(* two calls of step().                                                     *)
(***************************************************************************)
\* the bytes the host puts on the input port
HostBytes == {0, 165}

\* port instructions and instructions that move what they read
GpioPool ==
    {Gpi("A"), Gpi("ST"), Gpo("A"), Gpo("ST"), Gpo("IP"), Mov("B", "A")}

\* MOVC 7 => A; three instructions of the pool; HALT
GpioPrograms ==
    {generate_code(<<MovC("A", 7), x, y, z, Nop("Halt")>>) :
        x \in GpioPool, y \in GpioPool, z \in GpioPool}

\* the (program, memory) pairs stepped with a host that writes reg_i
HostConstructions ==
    (GpioPrograms \cup StraightPrograms \cup FlagFramePrograms \cup UndecodablePrograms)
    \X {ZeroMemory}

InitHost ==
    /\ \E c \in HostConstructions : InitMachine(c[1], c[2])
    /\ overflow_checks \in BOOLEAN
    /\ c_pc = "idle"
    /\ c_ins = NoInstruction
    /\ c_words = <<>>
    /\ c_back = Err("none", 0)

\* computer.reg_i = v, by the host, between two steps
HostSetInput ==
    /\ c_pc = "idle"
    /\ ~panicked
    /\ \E v \in HostBytes \ {reg_i} : reg_i' = v
    /\ UNCHANGED <<eip, program, memory, flags, registers, reg_o, panicked,
                   overflow_checks, steps, hist, frame, alu_ran, codec_vars>>

NextHost == Step \/ HostSetInput

SpecHost == InitHost /\ [][NextHost]_vars

(***************************************************************************)
(* The assembler (leg_computer_parse.rs). A text is a sequence of           *)
(* characters, each a string of length one.                                 *)
(***************************************************************************)
MaxLines == 3

\* the characters str::trim removes at both ends of a line
Whitespace == {" ", "\t", "\r"}

RECURSIVE split(_, _)
\* str::split(sep): the pieces between the separators, empty pieces included
split(s, sep) ==
    IF \A i \in 1..Len(s) : s[i] # sep THEN <<s>>
    ELSE LET k == CHOOSE i \in 1..Len(s) : s[i] = sep /\ \A j \in 1..(i - 1) : s[j] # sep
         IN <<SubSeq(s, 1, k - 1)>> \o split(SubSeq(s, k + 1, Len(s)), sep)

\* str::lines: the pieces between line feeds, without a carriage return at their end
\* and without the empty piece after a final line feed
lines(s) ==
    LET pieces == split(s, "\n")
        kept == IF pieces[Len(pieces)] = <<>> THEN SubSeq(pieces, 1, Len(pieces) - 1)
                ELSE pieces
    IN [i \in 1..Len(kept) |->
          IF kept[i] # <<>> /\ kept[i][Len(kept[i])] = "\r"
          THEN SubSeq(kept[i], 1, Len(kept[i]) - 1)
          ELSE kept[i]]

\* str::trim
trim(s) ==
    LET black == {i \in 1..Len(s) : s[i] \notin Whitespace}
    IN IF black = {} THEN <<>>
       ELSE SubSeq(s, CHOOSE i \in black : \A j \in black : i <= j,
                      CHOOSE i \in black : \A j \in black : i >= j)

\* str::starts_with
starts_with(s, prefix) == Len(s) >= Len(prefix) /\ SubSeq(s, 1, Len(prefix)) = prefix

\* FromStr for RegisterRef
RegisterRef_from_str(s) ==
    CASE s = <<"A">> -> Ok("A")
      [] s = <<"B">> -> Ok("B")
      [] s = <<"C">> -> Ok("C")
      [] s = <<"D">> -> Ok("D")
      [] s = <<"F", "L">> -> Ok("FL")
      [] s = <<"S", "T">> -> Ok("ST")
      [] s = <<"B", "P">> -> Ok("BP")
      [] s = <<"I", "P">> -> Ok("IP")
      [] OTHER -> Err("Invalid register", s)

\* FromStr for AluOpcode
AluOpcode_from_str(s) ==
    CASE s = <<"A", "D", "D">> -> Ok("Add")
      [] s = <<"A", "D", "D", "C">> -> Ok("AddCarry")
      [] s = <<"I", "N", "C", "R">> -> Ok("Incr")
      [] s = <<"D", "E", "C", "R">> -> Ok("Decr")
      [] s = <<"X", "O", "R">> -> Ok("Xor")
      [] s = <<"N", "E", "G">> -> Ok("Neg")
      [] s = <<"S", "U", "B">> -> Ok("Sub")
      [] s = <<"O", "R">> -> Ok("Or")
      [] s = <<"A", "N", "D">> -> Ok("And")
      [] s = <<"N", "A", "N", "D">> -> Ok("Nand")
      [] s = <<"N", "O", "R">> -> Ok("Nor")
      [] s = <<"S", "H", "I", "F", "T", "L">> -> Ok("ShiftL")
      [] s = <<"S", "H", "I", "F", "T", "R">> -> Ok("ShiftR")
      [] s = <<"E", "C", "H", "O">> -> Ok("Echo")
      [] OTHER -> Err("Invalid ALU operation", s)

\* FromStr for AluFlagRef
AluFlagRef_from_str(s) ==
    CASE s = <<"Z">> -> Ok("EqZero")
      [] s = <<"O", "u">> -> Ok("OverflowUnsigned")
      [] s = <<"O", "s">> -> Ok("OverflowSigned")
      [] s = <<"E", "Q">> -> Ok("Equal")
      [] s = <<"G", "T">> -> Ok("GreaterThan")
      [] s = <<"G", "T", "s">> -> Ok("GreaterThanSigned")
      [] s = <<"G", "E">> -> Ok("GreaterOrEqual")
      [] s = <<"G", "E", "s">> -> Ok("GreaterOrEqualSigned")
      [] s = <<"N", "E">> -> Ok("NotEqual")
      [] s = <<"L", "T">> -> Ok("LessThan")
      [] s = <<"L", "T", "s">> -> Ok("LessThanSigned")
      [] s = <<"L", "E">> -> Ok("LessOrEqual")
      [] s = <<"L", "E", "s">> -> Ok("LessOrEqualSigned")
      [] s = <<"F">> -> Ok("False")
      [] s = <<"T">> -> Ok("True")
      [] OTHER -> Err("Invalid flag", s)

\* the value of a decimal digit
DigitVal ==
    ("0" :> 0) @@ ("1" :> 1) @@ ("2" :> 2) @@ ("3" :> 3) @@ ("4" :> 4) @@ ("5" :> 5)
    @@ ("6" :> 6) @@ ("7" :> 7) @@ ("8" :> 8) @@ ("9" :> 9)

RECURSIVE decimal(_)
\* the number a sequence of digits writes
decimal(d) ==
    IF d = <<>> THEN 0 ELSE 10 * decimal(SubSeq(d, 1, Len(d) - 1)) + DigitVal[d[Len(d)]]

\* s.parse::<i16>(): an optional sign, one or more digits, a value an i16 holds
parse_i16(s) ==
    LET signed == s # <<>> /\ s[1] \in {"+", "-"}
        digits == IF signed THEN Tail(s) ELSE s
        v == IF signed /\ s[1] = "-" THEN 0 - decimal(digits) ELSE decimal(digits)
    IN IF digits = <<>> \/ \E i \in 1..Len(digits) : digits[i] \notin DOMAIN DigitVal
       THEN Err("invalid digit", s)
       ELSE IF v < -32768 \/ v > 32767 THEN Err("number out of range", s)
       ELSE Ok(v)

\* parse_word: ((w + 256) & 0xff) as Word; w + 256 overflows an i16 above 32511, which
\* panics in a build with overflow checks and wraps without them
parse_word(s) ==
    LET w == parse_i16(s)
    IN IF ~w.ok THEN Err("Invalid word", s)
       ELSE IF w.val + 256 > 32767 /\ overflow_checks THEN Err("panic", s)
       ELSE Ok((w.val + 256) % 256)

\* Ok of the value built from the parsed fields, or the first Err among them
One(r1, mk(_)) == IF ~r1.ok THEN r1 ELSE Ok(mk(r1.val))
Two(r1, r2, mk(_, _)) ==
    IF ~r1.ok THEN r1 ELSE IF ~r2.ok THEN r2 ELSE Ok(mk(r1.val, r2.val))
Four(r1, r2, r3, r4, mk(_, _, _, _)) ==
    IF ~r1.ok THEN r1 ELSE IF ~r2.ok THEN r2 ELSE IF ~r3.ok THEN r3
    ELSE IF ~r4.ok THEN r4 ELSE Ok(mk(r1.val, r2.val, r3.val, r4.val))

\* FromStr for Instruction: the line split at single spaces, matched against the forms
Instruction_from_str(line) ==
    LET w == split(line, " ")
    IN (
       CASE Len(w) = 4 /\ w[1] = <<"L", "O", "A", "D">> /\ w[3] = <<"=", ">">> ->
              Two(parse_word(w[2]), RegisterRef_from_str(w[4]), LAMBDA addr, dest : Load(dest, addr))
         [] Len(w) = 4 /\ w[1] = <<"L", "O", "A", "D", "P">> /\ w[3] = <<"=", ">">> ->
              Two(RegisterRef_from_str(w[2]), RegisterRef_from_str(w[4]), LAMBDA addr_src, dest : LoadP(dest, addr_src))
         [] Len(w) = 4 /\ w[1] = <<"S", "T", "O", "R", "E">> /\ w[3] = <<"=", ">">> ->
              Two(RegisterRef_from_str(w[2]), parse_word(w[4]), LAMBDA src, addr : Store(src, addr))
         [] Len(w) = 4 /\ w[1] = <<"S", "T", "O", "R", "E", "P">> /\ w[3] = <<"=", ">">> ->
              Two(RegisterRef_from_str(w[2]), RegisterRef_from_str(w[4]), LAMBDA src, addr_src : StoreP(src, addr_src))
         [] Len(w) = 4 /\ w[1] = <<"M", "O", "V">> /\ w[3] = <<"=", ">">> ->
              Two(RegisterRef_from_str(w[2]), RegisterRef_from_str(w[4]), LAMBDA src, dest : Mov(dest, src))
         [] Len(w) = 4 /\ w[1] = <<"M", "O", "V", "C">> /\ w[3] = <<"=", ">">> ->
              Two(parse_word(w[2]), RegisterRef_from_str(w[4]), LAMBDA val, dest : MovC(dest, val))
         [] Len(w) = 4 /\ w[1] = <<"J", "M", "P">> /\ w[3] = <<"?">> ->
              Two(AluFlagRef_from_str(w[2]), parse_word(w[4]), LAMBDA flag, addr : Jmp(flag, addr))
         [] Len(w) = 4 /\ w[1] = <<"J", "M", "P", "P">> /\ w[3] = <<"?">> ->
              Two(AluFlagRef_from_str(w[2]), RegisterRef_from_str(w[4]), LAMBDA flag, addr_src : JmpP(flag, addr_src))
         [] Len(w) = 4 /\ w[1] = <<"J", "M", "P", "R">> /\ w[3] = <<"?">> ->
              Two(AluFlagRef_from_str(w[2]), parse_word(w[4]), LAMBDA flag, diff : JmpR(flag, diff))
         [] Len(w) = 4 /\ w[1] = <<"J", "M", "P", "R", "P">> /\ w[3] = <<"?">> ->
              Two(AluFlagRef_from_str(w[2]), RegisterRef_from_str(w[4]), LAMBDA flag, diff_src : JmpRP(flag, diff_src))
         [] Len(w) = 2 /\ w[1] = <<"P", "U", "S", "H">> ->
              One(RegisterRef_from_str(w[2]), LAMBDA src : Stack(SPush(src)))
         [] Len(w) = 2 /\ w[1] = <<"P", "O", "P">> ->
              One(RegisterRef_from_str(w[2]), LAMBDA dest : Stack(SPop(dest)))
         [] Len(w) = 2 /\ w[1] = <<"C", "A", "L", "L">> ->
              One(RegisterRef_from_str(w[2]), LAMBDA addr_reg : Stack(SCall(addr_reg)))
         [] Len(w) = 2 /\ w[1] = <<"C", "A", "L", "L", "C">> ->
              One(parse_word(w[2]), LAMBDA addr : Stack(SCallC(addr)))
         [] Len(w) = 2 /\ w[1] = <<"C", "A", "L", "L", "R">> ->
              One(parse_word(w[2]), LAMBDA diff : Stack(SCallR(diff)))
         [] Len(w) = 2 /\ w[1] = <<"R", "E", "T">> ->
              One(RegisterRef_from_str(w[2]), LAMBDA src : Stack(SRet(src)))
         [] Len(w) = 4 /\ w[1] = <<"S", "L", "O", "A", "D">> /\ w[3] = <<"=", ">">> ->
              Two(RegisterRef_from_str(w[4]), parse_word(w[2]), LAMBDA dest, bp_diff : Stack(SLoad(dest, bp_diff)))
         [] Len(w) = 3 /\ w[1] = <<"G", "P", "I">> /\ w[3] = <<"<", "=">> ->
              One(RegisterRef_from_str(w[2]), LAMBDA dest : Gpi(dest))
         [] Len(w) = 3 /\ w[1] = <<"G", "P", "O">> /\ w[3] = <<"=", ">">> ->
              One(RegisterRef_from_str(w[2]), LAMBDA src : Gpo(src))
         [] Len(w) = 6 /\ w[1] = <<"A", "L", "U">> /\ w[5] = <<"=", ">">> ->
              Four(AluOpcode_from_str(w[2]), RegisterRef_from_str(w[3]),
                   RegisterRef_from_str(w[4]), RegisterRef_from_str(w[6]),
                   LAMBDA op, arg1, arg2, out : Alu(op, arg1, arg2, out))
         [] w = <<<<"N", "O", "P">>>> -> Ok(Nop("Nop"))
         [] w = <<<<"H", "A", "L", "T">>>> -> Ok(Nop("Halt"))
         [] OTHER -> Err("Invalid instruction", w)
       )

RECURSIVE collect(_)
\* collect::<Result<Vec<_>, _>>(): the values in order, or the first Err
collect(rs) ==
    IF rs = <<>> THEN Ok(<<>>)
    ELSE IF ~rs[1].ok THEN rs[1]
    ELSE LET rest == collect(Tail(rs))
         IN IF ~rest.ok THEN rest ELSE Ok(<<rs[1].val>> \o rest.val)

\* mutant: comment lines are recognised before the line is trimmed
assemble_program_untrimmed_comments(source) ==
    LET raw == SelectSeq(lines(source), LAMBDA s : ~starts_with(s, <<"#">>))
        trimmed == [i \in 1..Len(raw) |-> trim(raw[i])]
        nonempty == SelectSeq(trimmed, LAMBDA s : s # <<>>)
    IN collect([i \in 1..Len(nonempty) |-> Instruction_from_str(nonempty[i])])

\* assemble_program
assemble_program(source) ==
    LET raw == lines(source)
        trimmed == [i \in 1..Len(raw) |-> trim(raw[i])]
        nonempty == SelectSeq(trimmed, LAMBDA s : s # <<>>)
        code == SelectSeq(nonempty, LAMBDA s : ~starts_with(s, <<"#">>))
    IN collect([i \in 1..Len(code) |-> Instruction_from_str(code[i])])

\* source lines under test, each with the instruction its text stands for
\* (NoInstruction: the line is no instruction)
SampleLines ==
    {[text |-> <<>>,
      means |-> NoInstruction],
     [text |-> <<" ", " ", " ", " ">>,
      means |-> NoInstruction],
     [text |-> <<" ", " ", " ", " ", "#", " ", "T", "h", "i", "s", " ", "i", "s", " ", "a", " ", "c", "o", "m", "m", "e", "n", "t">>,
      means |-> NoInstruction],
     [text |-> <<"#", "H", "A", "L", "T">>,
      means |-> NoInstruction],
     [text |-> <<"\t", "#", " ", "N", "O", "P">>,
      means |-> NoInstruction],
     [text |-> <<" ", " ", " ", " ", "H", "A", "L", "T">>,
      means |-> Nop("Halt")],
     [text |-> <<"N", "O", "P", " ", " ">>,
      means |-> Nop("Nop")],
     [text |-> <<" ", " ", "M", "O", "V", "C", " ", "-", "2", "0", " ", "=", ">", " ", "A">>,
      means |-> MovC("A", 236)],
     [text |-> <<"P", "U", "S", "H", " ", "S", "T">>,
      means |-> Stack(SPush("ST"))],
     [text |-> <<"A", "L", "U", " ", "A", "D", "D", " ", "A", " ", "B", " ", "=", ">", " ", "C">>,
      means |-> Alu("Add", "A", "B", "C")],
     [text |-> <<"J", "M", "P", "R", " ", "O", "u", " ", "?", " ", "1", "4">>,
      means |-> JmpR("OverflowUnsigned", 14)],
     [text |-> <<"H", "A", "L", "T", " ", "#", " ", "s", "t", "o", "p">>,
      means |-> NoInstruction]}

RECURSIVE join(_)
\* the text of the lines, a line feed after each but the last
join(ls) ==
    IF ls = <<>> THEN <<>>
    ELSE IF Len(ls) = 1 THEN ls[1]
    ELSE ls[1] \o <<"\n">> \o join(Tail(ls))

\* the source text of a sequence of sample lines
SourceText(ls) == join([i \in 1..Len(ls) |-> ls[i].text])

\* assembly runs: c_ins holds the lines of the source, c_back the result of
\* assemble_program, c_words the bytes of generate_code
InitAsm ==
    /\ InitMachine(<<>>, ZeroMemory)
    /\ overflow_checks \in BOOLEAN
    /\ c_pc = "source"
    /\ c_ins \in UNION {[1..n -> SampleLines] : n \in 1..MaxLines}
    /\ c_words = <<>>
    /\ c_back = Err("none", 0)

\* assemble_program(source)
Assemble ==
    /\ c_pc = "source"
    /\ c_back' = assemble_program(SourceText(c_ins))
    /\ c_pc' = IF c_back'.ok THEN "assembled"
               ELSE IF c_back'.val[1] = "panic" THEN "panicked" ELSE "rejected"
    /\ UNCHANGED <<c_ins, c_words, machine_vars>>

\* generate_code(&program)
Generate ==
    /\ c_pc = "assembled"
    /\ c_words' = generate_code(c_back.val)
    /\ c_pc' = "generated"
    /\ UNCHANGED <<c_ins, c_back, machine_vars>>

NextAsm == Assemble \/ Generate

SpecAsm == InitAsm /\ [][NextAsm]_vars

(***************************************************************************)
(* Literal runs: the line MOVC <literal> => A is parsed, for the decimal    *)
(* text of a number.                                                        *)
(***************************************************************************)
LiteralSpan == 300

\* the numbers whose decimal text is parsed: those around the byte range, and those
\* around the ends of the i16 range and of the range where w + 256 fits an i16
LiteralNumbers ==
    (-LiteralSpan..LiteralSpan)
    \cup {32511, 32512, 32767, 32768, -32768, -32769}

RECURSIVE digits_of(_)
\* the decimal digits of a natural number
digits_of(n) ==
    IF n < 10 THEN <<(<<"0", "1", "2", "3", "4", "5", "6", "7", "8", "9">>)[n + 1]>>
    ELSE digits_of(n \div 10) \o digits_of(n % 10)

\* the decimal text of an integer, as a source line writes it
decimal_text(n) == IF n < 0 THEN <<"-">> \o digits_of(0 - n) ELSE digits_of(n)

\* c_ins holds the number written, c_words the text of the line
InitLiteral ==
    /\ InitMachine(<<>>, ZeroMemory)
    /\ overflow_checks \in BOOLEAN
    /\ c_pc = "line"
    /\ \E n \in LiteralNumbers :
          /\ c_ins = [kind |-> "literal", n |-> n]
          /\ c_words = <<"M", "O", "V", "C", " ">> \o decimal_text(n)
                       \o <<" ", "=", ">", " ", "A">>
    /\ c_back = Err("none", 0)

\* line.parse::<Instruction>()
ParseLine ==
    /\ c_pc = "line"
    /\ c_back' = Instruction_from_str(c_words)
    /\ c_pc' = IF c_back'.ok THEN "parsed"
               ELSE IF c_back'.val[1] = "panic" THEN "panicked" ELSE "rejected"
    /\ UNCHANGED <<c_ins, c_words, machine_vars>>

NextLiteral == ParseLine

SpecLiteral == InitLiteral /\ [][NextLiteral]_vars

(***************************************************************************)
(* Encoding runs: an Instruction value is encoded, then its words decoded.  *)
(***************************************************************************)
StackInstructions ==
    {SPush(r) : r \in RegisterRef} \cup {SPop(r) : r \in RegisterRef}
    \cup {SLoad(r, d) : r \in RegisterRef, d \in Byte}
    \cup {SCall(r) : r \in RegisterRef} \cup {SCallC(a) : a \in Byte}
    \cup {SCallR(d) : d \in Byte} \cup {SRet(r) : r \in RegisterRef}

\* every value of enum Instruction
Instructions ==
    {Load(r, a) : r \in RegisterRef, a \in Byte}
    \cup {LoadP(r, q) : r \in RegisterRef, q \in RegisterRef}
    \cup {Store(r, a) : r \in RegisterRef, a \in Byte}
    \cup {StoreP(r, q) : r \in RegisterRef, q \in RegisterRef}
    \cup {Mov(r, q) : r \in RegisterRef, q \in RegisterRef}
    \cup {MovC(r, v) : r \in RegisterRef, v \in Byte}
    \cup {Jmp(f, a) : f \in AluFlagRef, a \in Byte}
    \cup {JmpP(f, r) : f \in AluFlagRef, r \in RegisterRef}
    \cup {JmpR(f, d) : f \in AluFlagRef, d \in Byte}
    \cup {JmpRP(f, r) : f \in AluFlagRef, r \in RegisterRef}
    \cup {Stack(x) : x \in StackInstructions}
    \cup {Gpi(r) : r \in RegisterRef} \cup {Gpo(r) : r \in RegisterRef}
    \cup {Alu(op, x, y, o) : op \in AluOpcode, x \in RegisterRef, y \in RegisterRef,
                             o \in RegisterRef}
    \cup {Nop(n) : n \in NopOpcode}

\* the instructions the two-bit ALU fields and the four SLOAD opcodes can carry
WellFormed(i) ==
    /\ i.kind = "Alu" =>
          {i.arg1, i.arg2, i.out} \subseteq GeneralRegisterRef
    /\ (i.kind = "Stack" /\ i.stack_ins.kind = "Load") =>
          i.stack_ins.dest \in GeneralRegisterRef

InitCodec ==
    /\ InitMachine(<<>>, ZeroMemory)
    /\ overflow_checks = FALSE
    /\ c_pc = "start"
    /\ c_ins \in Instructions
    /\ c_words = <<>>
    /\ c_back = Err("none", 0)

\* let words: (Word, Word) = (&c_ins).into()
Encode ==
    /\ c_pc = "start"
    /\ c_words' = Instruction_into(c_ins)
    /\ c_pc' = IF c_words' = EncodePanic THEN "panicked" ELSE "encoded"
    /\ UNCHANGED <<c_ins, c_back, machine_vars>>

\* Instruction::try_from(words)
Decode ==
    /\ c_pc = "encoded"
    /\ c_back' = Instruction_try_from(c_words[1], c_words[2])
    /\ c_pc' = "decoded"
    /\ UNCHANGED <<c_ins, c_words, machine_vars>>

NextCodec == Encode \/ Decode

SpecCodec == InitCodec /\ [][NextCodec]_vars

(***************************************************************************)
(* Decoding runs: Instruction::try_from on an arbitrary pair of bytes.      *)
(***************************************************************************)
InitDecode ==
    /\ InitMachine(<<>>, ZeroMemory)
    /\ overflow_checks = FALSE
    /\ c_pc = "raw"
    /\ c_ins = NoInstruction
    /\ c_words \in Byte \X Byte
    /\ c_back = Err("none", 0)

\* Instruction::try_from(c_words)
DecodeRaw ==
    /\ c_pc = "raw"
    /\ c_back' = Instruction_try_from(c_words[1], c_words[2])
    /\ c_pc' = "decoded"
    /\ UNCHANGED <<c_ins, c_words, machine_vars>>

NextDecode == DecodeRaw

SpecDecode == InitDecode /\ [][NextDecode]_vars

(***************************************************************************)
(* C1  Round trip: decoding the two bytes that a well-formed Instruction    *)
(* encodes to returns that Instruction.                                     *)
(***************************************************************************)
C1_RoundTrip ==
    (c_pc = "decoded" /\ WellFormed(c_ins)) => (c_back.ok /\ c_back.val = c_ins)

\* a well-formed SLOAD with the largest offset has been encoded and decoded
C1_Witness ==
    /\ c_pc = "decoded"
    /\ c_ins = Stack(SLoad("D", 255))
    /\ c_words = <<187, 255>>

(***************************************************************************)
(* Vocabulary of the claims about step(): the latest call, the state it     *)
(* started from, and byte arithmetic stated without the model's operators.  *)
(***************************************************************************)
Stepped == hist # <<>>
LastIns == hist[1].ins
Pre == hist[1].pre

IsStack(ins, k) == ins.kind = "Stack" /\ ins.stack_ins.kind = k

\* LOAD, LOADP, STORE, STOREP, MOV, MOVC, PUSH, POP, SLOAD, GPI, GPO, ALU, NOP
IsStraight(ins) ==
    \/ ins.kind \in {"Load", "LoadP", "Store", "StoreP", "Mov", "MovC", "Gpi", "Gpo", "Alu"}
    \/ ins = Nop("Nop")
    \/ IsStack(ins, "Push") \/ IsStack(ins, "Pop") \/ IsStack(ins, "Load")

IsCall(ins) == IsStack(ins, "Call") \/ IsStack(ins, "CallC") \/ IsStack(ins, "CallR")

Bool(b) == IF b THEN 1 ELSE 0

\* the packed FL byte of a flags record: bit 0 = Z ... bit 7 = GEs
PackedFlags(f) ==
    Bool(f.eq_zero) + 2 * Bool(f.overflow_unsigned) + 4 * Bool(f.overflow_signed)
    + 8 * Bool(f.equal) + 16 * Bool(f.greater_than) + 32 * Bool(f.greater_than_signed)
    + 64 * Bool(f.greater_or_equal) + 128 * Bool(f.greater_or_equal_signed)

\* the value register r holds in machine state m
ValueIn(m, r) ==
    CASE r = "FL" -> PackedFlags(m.flags)
      [] r = "IP" -> m.eip
      [] OTHER -> m.registers[r]

\* a byte read as a two's-complement signed byte
Signed(x) == IF x >= 128 THEN x - 256 ELSE x

\* bit i of byte x, as 0 or 1
BitOf(x, i) == (x \div (2^i)) % 2

RECURSIVE SumBits(_, _)
\* the byte whose bit i is bit(i), summed from bit i up
SumBits(bit(_), i) == IF i > 7 THEN 0 ELSE (2^i) * bit(i) + SumBits(bit, i + 1)

XorOf(a, b) == SumBits(LAMBDA i : (BitOf(a, i) + BitOf(b, i)) % 2, 0)
AndOf(a, b) == SumBits(LAMBDA i : BitOf(a, i) * BitOf(b, i), 0)
OrOf(a, b) == a + b - AndOf(a, b)

\* the value RET src pushes: src is read after ST and BP were restored from frame base f
RetValue(m, src) ==
    LET f == m.registers["BP"]
    IN CASE src = "ST" -> (f + 2) % 256
         [] src = "BP" -> m.memory[f]
         [] OTHER -> ValueIn(m, src)

(***************************************************************************)
(* C2  ip invariant: step() on an instruction that is no jump, call, ret    *)
(* or HALT sets eip to (eip + 2) mod 256, for every starting eip, 254       *)
(* included.                                                                *)
(***************************************************************************)
C2_IpAdvances ==
    (Stepped /\ IsStraight(LastIns)) => (~panicked /\ eip = (Pre.eip + 2) % 256)

(***************************************************************************)
(* C3  Call/Ret discipline: after CALLC at p with BP = b and ST = s, a RET  *)
(* src executed while BP is the frame base (s-2) mod 256 and the two saved  *)
(* cells are intact leaves eip = (p+2) mod 256, BP = b, ST = (s-1) mod 256  *)
(* and the value read from src in mem[ST].                                  *)
(***************************************************************************)
C3_CallRet ==
    (/\ Stepped
     /\ IsStack(LastIns, "Ret")
     /\ frame.live
     /\ Pre.registers["BP"] = (frame.s + 254) % 256
     /\ Pre.memory[(frame.s + 255) % 256] = frame.p
     /\ Pre.memory[(frame.s + 254) % 256] = frame.b)
    => (/\ ~panicked
        /\ eip = (frame.p + 2) % 256
        /\ registers["BP"] = frame.b
        /\ registers["ST"] = (frame.s + 255) % 256
        /\ memory[registers["ST"]] = RetValue(Pre, LastIns.stack_ins.src))

(***************************************************************************)
(* C4  Stack conservation: PUSH src immediately followed by POP dest, dest  *)
(* one of A..D, leaves ST as it was before the PUSH and dest holding the    *)
(* value src had when it was pushed.                                        *)
(***************************************************************************)
C4_PushPop ==
    (/\ Len(hist) = 2
     /\ IsStack(hist[2].ins, "Push")
     /\ IsStack(hist[1].ins, "Pop")
     /\ hist[1].ins.stack_ins.dest \in GeneralRegisterRef)
    => (/\ registers["ST"] = hist[2].pre.registers["ST"]
        /\ registers[hist[1].ins.stack_ins.dest]
              = ValueIn(hist[2].pre, hist[2].ins.stack_ins.src))

\* PUSH ST then POP B ran from ST = 128: B holds the ST of before the push
C4_Witness ==
    /\ Len(hist) = 2
    /\ hist[2].ins = Stack(SPush("ST"))
    /\ hist[1].ins = Stack(SPop("B"))
    /\ hist[2].pre.registers["ST"] = 128
    /\ registers["B"] = 128
    /\ ~panicked

(***************************************************************************)
(* C5  Flag exclusivity: once an ALU instruction has executed, exactly one  *)
(* of EQ/NE, of GT/LE, of GTs/LEs, of GE/LT and of GEs/LTs is set.          *)
(***************************************************************************)
C5_FlagExclusivity ==
    alu_ran =>
        /\ flags.equal # flags.not_equal
        /\ flags.greater_than # flags.less_or_equal
        /\ flags.greater_than_signed # flags.less_or_equal_signed
        /\ flags.greater_or_equal # flags.less_than
        /\ flags.greater_or_equal_signed # flags.less_than_signed

\* an ALU instruction ran, another instruction ran after it, and GT, LEs and NE are set
C5_Witness ==
    /\ alu_ran
    /\ Stepped
    /\ LastIns.kind # "Alu"
    /\ flags.greater_than /\ flags.less_or_equal_signed /\ flags.not_equal

(***************************************************************************)
(* C6  Call semantics: CALL reg, CALLC addr and CALLR diff at address p     *)
(* with ST = s and BP = b write p to mem[(s-1) mod 256], then b to          *)
(* mem[(s-2) mod 256], set BP = ST = (s-2) mod 256 and eip = target (the    *)
(* value reg had before, addr, or (p + diff) mod 256); A..D and the flags   *)
(* are unchanged.                                                           *)
(***************************************************************************)
CallTarget(m, s) ==
    CASE s.kind = "Call" -> ValueIn(m, s.addr_reg)
      [] s.kind = "CallC" -> s.addr
      [] s.kind = "CallR" -> (m.eip + s.diff) % 256

C6_CallSemantics ==
    (Stepped /\ IsCall(LastIns)) =>
        LET p == Pre.eip
            s == Pre.registers["ST"]
            b == Pre.registers["BP"]
        IN /\ ~panicked
           /\ memory = [[Pre.memory EXCEPT ![(s + 255) % 256] = p]
                                    EXCEPT ![(s + 254) % 256] = b]
           /\ registers["BP"] = (s + 254) % 256
           /\ registers["ST"] = (s + 254) % 256
           /\ eip = CallTarget(Pre, LastIns.stack_ins)
           /\ \A r \in GeneralRegisterRef : registers[r] = Pre.registers[r]
           /\ flags = Pre.flags

\* CALLR ran at address 254 with ST = 1: the saved ip is in cell 0, the saved BP in 255
C6_Witness ==
    /\ Stepped
    /\ IsStack(LastIns, "CallR")
    /\ Pre.eip = 254
    /\ Pre.registers["ST"] = 1
    /\ Pre.registers["BP"] = 255
    /\ memory[0] = 254 /\ memory[255] = 255
    /\ eip = CalleeAt

(***************************************************************************)
(* C7  Ret semantics: RET src in any state with BP = f sets BP to mem[f],   *)
(* takes stored_ip = mem[(f+1) mod 256], leaves ST = (f+1) mod 256 with     *)
(* mem[ST] = read(src), and sets eip = (stored_ip + 2) mod 256, also when   *)
(* stored_ip is 254 or 255.                                                 *)
(***************************************************************************)
C7_RetSemantics ==
    (Stepped /\ IsStack(LastIns, "Ret")) =>
        LET f == Pre.registers["BP"]
            stored_ip == Pre.memory[(f + 1) % 256]
        IN /\ ~panicked
           /\ registers["BP"] = Pre.memory[f]
           /\ registers["ST"] = (f + 1) % 256
           /\ memory[registers["ST"]] = RetValue(Pre, LastIns.stack_ins.src)
           /\ eip = (stored_ip + 2) % 256

(***************************************************************************)
(* C8  PUSH src sets ST to (ST - 1) mod 256 and writes the value src had    *)
(* before the instruction into mem[new ST], changing no other cell; from    *)
(* ST = 0 the push writes cell 255.                                         *)
(***************************************************************************)
C8_Push ==
    (Stepped /\ IsStack(LastIns, "Push")) =>
        LET v == ValueIn(Pre, LastIns.stack_ins.src)
        IN /\ registers["ST"] = (Pre.registers["ST"] + 255) % 256
           /\ memory = [Pre.memory EXCEPT ![registers["ST"]] = v]
           /\ Pre.registers["ST"] = 0 => memory[255] = v

\* PUSH A ran with ST = 0 and A = 7: cell 255 holds 7 and ST is 255
C8_Witness ==
    /\ Stepped
    /\ LastIns = Stack(SPush("A"))
    /\ Pre.registers["ST"] = 0
    /\ Pre.registers["A"] = 7
    /\ memory[255] = 7
    /\ registers["ST"] = 255

(***************************************************************************)
(* C9  Comparison flags: after any ALU op on the values a (arg1) and b      *)
(* (arg2) the operand registers held before the result was written, EQ is   *)
(* a = b, GT is a > b unsigned, GTs is a > b signed, GE is a >= b unsigned, *)
(* GEs is a >= b signed, and NE, LT, LTs, LE, LEs are the negations of EQ,  *)
(* GE, GEs, GT, GTs.                                                        *)
(***************************************************************************)
C9_ComparisonFlags ==
    (Stepped /\ LastIns.kind = "Alu") =>
        LET a == Pre.registers[LastIns.arg1]
            b == Pre.registers[LastIns.arg2]
        IN /\ flags.equal = (a = b)
           /\ flags.greater_than = (a > b)
           /\ flags.greater_than_signed = (Signed(a) > Signed(b))
           /\ flags.greater_or_equal = (a >= b)
           /\ flags.greater_or_equal_signed = (Signed(a) >= Signed(b))
           /\ flags.not_equal = (a # b)
           /\ flags.less_than = (a < b)
           /\ flags.less_than_signed = (Signed(a) < Signed(b))
           /\ flags.less_or_equal = (a <= b)
           /\ flags.less_or_equal_signed = (Signed(a) <= Signed(b))

\* an ALU op overwrote its own arg1 (128, against arg2 = 1): GT and LTs are set
C9_Witness ==
    /\ Stepped
    /\ LastIns.kind = "Alu"
    /\ LastIns.out = LastIns.arg1
    /\ Pre.registers[LastIns.arg1] = 128
    /\ Pre.registers[LastIns.arg2] = 1
    /\ registers[LastIns.out] # 128
    /\ flags.greater_than /\ flags.less_than_signed

(***************************************************************************)
(* C10  ALU results: the byte written to out is ADD (a+b) mod 256, ADDC     *)
(* (a+b+1) mod 256, INCR (a+1) mod 256, DECR (a-1) mod 256, SUB (a-b) mod   *)
(* 256, XOR/OR/AND bitwise, NAND/NOR their complements, NEG 255-b, SHIFTL   *)
(* (a << (b & 7)) mod 256, SHIFTR the arithmetic right shift of a by        *)
(* (b & 7), ECHO a.                                                         *)
(***************************************************************************)
AluResult(op, a, b) ==
    CASE op = "Add" -> (a + b) % 256
      [] op = "AddCarry" -> (a + b + 1) % 256
      [] op = "Incr" -> (a + 1) % 256
      [] op = "Decr" -> (a + 255) % 256
      [] op = "Sub" -> (a + 256 - b) % 256
      [] op = "Xor" -> XorOf(a, b)
      [] op = "Or" -> OrOf(a, b)
      [] op = "And" -> AndOf(a, b)
      [] op = "Nand" -> 255 - AndOf(a, b)
      [] op = "Nor" -> 255 - OrOf(a, b)
      [] op = "Neg" -> 255 - b
      [] op = "ShiftL" -> (a * 2^(b % 8)) % 256
      [] op = "ShiftR" -> (Signed(a) \div 2^(b % 8)) % 256
      [] op = "Echo" -> a

C10_AluResults ==
    (Stepped /\ LastIns.kind = "Alu") =>
        registers[LastIns.out]
            = AluResult(LastIns.op, Pre.registers[LastIns.arg1], Pre.registers[LastIns.arg2])

\* SHIFTR of 150 (bit 7 set) by 3 wrote 242: the sign bit was replicated
C10_Witness ==
    /\ Stepped
    /\ LastIns.kind = "Alu"
    /\ LastIns.op = "ShiftR"
    /\ Pre.registers[LastIns.arg1] = 150
    /\ Pre.registers[LastIns.arg2] = 3
    /\ registers[LastIns.out] = 242

(***************************************************************************)
(* C11  Z flag: after every ALU instruction Z is set exactly when the byte  *)
(* that instruction wrote to out is 0, whatever earlier ALU results were.   *)
(***************************************************************************)
C11_ZeroFlag ==
    (Stepped /\ LastIns.kind = "Alu") => (flags.eq_zero = (registers[LastIns.out] = 0))

\* two ALU instructions in a row: the first left Z set, the second wrote a nonzero byte
C11_Witness ==
    /\ Len(hist) = 2
    /\ hist[2].ins.kind = "Alu"
    /\ LastIns.kind = "Alu"
    /\ Pre.flags.eq_zero
    /\ registers[LastIns.out] # 0
    /\ ~flags.eq_zero

(***************************************************************************)
(* C12  Unsigned overflow on additions: after ADD, ADDC and INCR on a, b    *)
(* the Ou flag is set exactly when the true sum (a+b, a+b+1, a+1) exceeds   *)
(* 255, and is cleared otherwise, whatever it was before.                   *)
(***************************************************************************)
TrueSum(op, a, b) ==
    CASE op = "Add" -> a + b
      [] op = "AddCarry" -> a + b + 1
      [] op = "Incr" -> a + 1

C12_UnsignedOverflow ==
    (Stepped /\ LastIns.kind = "Alu" /\ LastIns.op \in {"Add", "AddCarry", "Incr"}) =>
        (flags.overflow_unsigned
            = (TrueSum(LastIns.op, Pre.registers[LastIns.arg1],
                       Pre.registers[LastIns.arg2]) > 255))

\* ADD 255 + 1 set Ou, the ADD 0 + 1 right after it cleared Ou again
C12_Witness ==
    /\ Len(hist) = 2
    /\ hist[2].ins.kind = "Alu" /\ hist[2].ins.op = "Add"
    /\ LastIns.kind = "Alu" /\ LastIns.op = "Add"
    /\ Pre.flags.overflow_unsigned
    /\ Pre.registers[LastIns.arg1] = 0 /\ Pre.registers[LastIns.arg2] = 1
    /\ ~flags.overflow_unsigned

(***************************************************************************)
(* C13  Reading special registers: an instruction that reads IP as a source *)
(* (MOV, PUSH, STORE, STOREP, GPO) obtains the address of the instruction   *)
(* being executed, and one that reads FL obtains the byte whose bits 0..7   *)
(* are the current Z, Ou, Os, EQ, GT, GTs, GE, GEs flags.                   *)
(***************************************************************************)
SpecialValue(m, src) == IF src = "IP" THEN m.eip ELSE PackedFlags(m.flags)

C13_SpecialReads ==
    Stepped =>
        /\ (LastIns.kind = "Mov" /\ LastIns.src \in {"IP", "FL"}) =>
              registers[LastIns.dest] = SpecialValue(Pre, LastIns.src)
        /\ (IsStack(LastIns, "Push") /\ LastIns.stack_ins.src \in {"IP", "FL"}) =>
              memory[registers["ST"]] = SpecialValue(Pre, LastIns.stack_ins.src)
        /\ (LastIns.kind = "Store" /\ LastIns.src \in {"IP", "FL"}) =>
              memory[LastIns.addr] = SpecialValue(Pre, LastIns.src)
        /\ (LastIns.kind = "StoreP" /\ LastIns.src \in {"IP", "FL"}) =>
              memory[ValueIn(Pre, LastIns.addr_src)] = SpecialValue(Pre, LastIns.src)
        /\ (LastIns.kind = "Gpo" /\ LastIns.src \in {"IP", "FL"}) =>
              reg_o = SpecialValue(Pre, LastIns.src)

\* ALU DECR of 0 by 0 (operands equal: EQ, GE, GEs set), then MOV FL => D read 200
C13_Witness ==
    /\ Stepped
    /\ LastIns = Mov("D", "FL")
    /\ Pre.flags.equal /\ Pre.flags.greater_or_equal_signed
    /\ registers["D"] = 200

(***************************************************************************)
(* C14  HALT freezes the machine: step() on a HALT leaves eip, all          *)
(* registers, all flags, all memory cells, reg_i and reg_o unchanged, so a  *)
(* halted machine is still halted after the step.                           *)
(***************************************************************************)
\* the two bytes at eip are a HALT: opcode nibble 0 and second byte 0
HaltAt(m) ==
    /\ m.eip + 2 <= Len(program)
    /\ program[m.eip + 1] \div 16 = 0
    /\ program[m.eip + 2] = 0

C14_HaltFreezes ==
    [][(HaltAt(Self) /\ ~panicked)
        => (/\ eip' = eip
            /\ registers' = registers
            /\ flags' = flags
            /\ memory' = memory
            /\ reg_i' = reg_i
            /\ reg_o' = reg_o
            /\ ~panicked'
            /\ HaltAt(Self)')]_vars

\* step() was called twice on the HALT that ends a PUSH/POP program, with ST, a
\* register and memory no longer zero
C14_Witness ==
    /\ Len(hist) = 2
    /\ hist[2].ins = Nop("Halt")
    /\ hist[1].ins = Nop("Halt")
    /\ eip = 8
    /\ registers["ST"] = 128
    /\ registers["A"] = 7
    /\ memory[127] = 7

(***************************************************************************)
(* C15  run() returns only a halted machine: the returned state has a HALT  *)
(* at eip and is the first such state of the run (every step() of the run   *)
(* was taken from a state with no HALT at eip); when the initial state is   *)
(* already halted no instruction is executed.                               *)
(***************************************************************************)
C15_RunReturnsHalted ==
    /\ c_pc = "returned" => HaltAt(Self)
    /\ c_pc \in {"running", "returned"} =>
          \A i \in 1..Len(hist) : ~HaltAt(hist[i].pre)
    /\ (c_pc = "returned" /\ HaltAt([Self EXCEPT !.eip = 0])) =>
          /\ steps = 0
          /\ eip = 0
          /\ registers = Registers_new
          /\ flags = AluFlags_new
          /\ memory = ZeroMemory

\* run() returned from the PUSH/POP program after its four instructions, at the HALT
\* in cells 8 and 9
C15_Witness ==
    /\ c_pc = "returned"
    /\ steps = 4
    /\ eip = 8
    /\ IsStack(LastIns, "Pop")
    /\ registers["ST"] = 128

(***************************************************************************)
(* C16  decode(b1, b2) returns an error exactly when: the high nibble of b1 *)
(* is 14 or 15; a register selector is not in {0,1,2,3,12,13,14,15} (low    *)
(* nibble of b1 for LOAD/LOADP/STORE/STOREP/MOV/MOVC, the whole b2 for the  *)
(* MOV source and PUSH/POP/CALL/RET, the low nibble of b2 for LOADP/STOREP/ *)
(* JMPP/JMPRP/GPI/GPO); the flag selector of a jump is 13; the ALU sub-op   *)
(* is 7 or 14; the stack sub-op is none of 0,1,2,4,5,6,8,9,10,11; the GPIO  *)
(* discriminator is 2 or more; or the opcode is 0 and b2 is neither 0 nor   *)
(* 255. Every other byte pair decodes.                                      *)
(***************************************************************************)
ValidSelector(x) == x \in {0, 1, 2, 3, 12, 13, 14, 15}

DecodeFails(b1, b2) ==
    LET hi == b1 \div 16
        lo == b1 % 16
        lo2 == b2 % 16
    IN \/ hi \in {14, 15}
       \/ hi \in {1, 2, 3, 4, 5, 6} /\ ~ValidSelector(lo)
       \/ hi = 5 /\ ~ValidSelector(b2)
       \/ hi = 11 /\ lo \in {0, 1, 2, 4} /\ ~ValidSelector(b2)
       \/ hi \in {2, 4, 8, 10} /\ ~ValidSelector(lo2)
       \/ hi = 12 /\ lo \in {0, 1} /\ ~ValidSelector(lo2)
       \/ hi \in {7, 8, 9, 10} /\ lo = 13
       \/ hi = 13 /\ lo \in {7, 14}
       \/ hi = 11 /\ lo \notin {0, 1, 2, 4, 5, 6, 8, 9, 10, 11}
       \/ hi = 12 /\ lo >= 2
       \/ hi = 0 /\ b2 \notin {0, 255}

C16_DecodeErrors ==
    (c_pc = "decoded" /\ c_ins = NoInstruction) =>
        (~c_back.ok <=> DecodeFails(c_words[1], c_words[2]))

\* LOADP with dest FL and a second byte 0xF3: the top nibble of b2 is ignored and the
\* pair decodes to LOADP D => FL
C16_Witness ==
    /\ c_pc = "decoded"
    /\ c_words = <<44, 243>>
    /\ c_back = Ok(LoadP("FL", "D"))

(***************************************************************************)
(* C17  Encoding is total: for every Instruction value, SLOAD with a        *)
(* destination outside A..D and ALU with operands outside A..D included,    *)
(* encode returns one byte pair and never fails.                            *)
(***************************************************************************)
C17_EncodeTotal ==
    (c_pc \in {"encoded", "decoded", "panicked"}) =>
        (c_pc # "panicked" /\ c_words \in Byte \X Byte)

C19_FetchTotal ==
    (Stepped /\ Len(program) = 256 /\ LastIns = NoInstruction) =>
        ~Instruction_try_from(program[Pre.eip + 1],
                              program[((Pre.eip + 1) % 256) + 1]).ok

(***************************************************************************)
(* C20  Zero fill halts: when execution runs past the last assembled        *)
(* instruction of an image shorter than 256 bytes, the fetch reads (0, 0)   *)
(* and is_halted() is true.                                                 *)
(***************************************************************************)
C20_ZeroFillHalts ==
    (~panicked /\ Len(program) < 256 /\ eip = Len(program)) => is_halted(Self)

(***************************************************************************)
(* C21  Decode failure is fatal and leaves the state in place: a step that  *)
(* fetches, inside the program, two bytes that do not decode stops with a   *)
(* panic, executes no instruction, and leaves eip, registers, flags,        *)
(* memory, reg_i and reg_o as they were before the fetch.                   *)
(***************************************************************************)
C21_DecodeFailureFatal ==
    (/\ Stepped
     /\ Pre.eip + 2 <= Len(program)
     /\ DecodeFails(program[Pre.eip + 1], program[Pre.eip + 2]))
    => (/\ panicked
        /\ LastIns = NoInstruction
        /\ eip = Pre.eip
        /\ registers = Pre.registers
        /\ flags = Pre.flags
        /\ memory = Pre.memory
        /\ reg_i = Pre.reg_i
        /\ reg_o = Pre.reg_o)

\* the pair 224, 0 at address 4 was fetched after MOVC 5 => A and ALU DECR A A => B:
\* the machine stopped at 4 with A = 5, B = 4 and the flags of the DECR
C21_Witness ==
    /\ Stepped
    /\ panicked
    /\ Pre.eip = 4
    /\ Len(program) = 10
    /\ program[5] = 224
    /\ eip = 4
    /\ registers["A"] = 5
    /\ registers["B"] = 4
    /\ flags.equal

\* whether the flag a jump names is set in flags record f: T always, F never
FlagHolds(f, flag) ==
    CASE flag = "True" -> TRUE
      [] flag = "False" -> FALSE
      [] OTHER ->
           [EqZero |-> f.eq_zero, OverflowUnsigned |-> f.overflow_unsigned,
            OverflowSigned |-> f.overflow_signed, Equal |-> f.equal,
            GreaterThan |-> f.greater_than, GreaterThanSigned |-> f.greater_than_signed,
            GreaterOrEqual |-> f.greater_or_equal,
            GreaterOrEqualSigned |-> f.greater_or_equal_signed,
            NotEqual |-> f.not_equal, LessThan |-> f.less_than,
            LessThanSigned |-> f.less_than_signed, LessOrEqual |-> f.less_or_equal,
            LessOrEqualSigned |-> f.less_or_equal_signed][flag]

\* the step changed nothing but eip
OnlyEipChanged ==
    /\ registers = Pre.registers
    /\ flags = Pre.flags
    /\ memory = Pre.memory
    /\ reg_i = Pre.reg_i
    /\ reg_o = Pre.reg_o

(***************************************************************************)
(* C22  JMP flag ? addr sets eip to addr when the named flag is set and to  *)
(* (eip + 2) mod 256 otherwise, and changes nothing else; T jumps in every  *)
(* state and F in none, the initial state included.                         *)
(***************************************************************************)
C22_Jmp ==
    (Stepped /\ LastIns.kind = "Jmp")
    => (/\ ~panicked
        /\ eip = IF FlagHolds(Pre.flags, LastIns.flag) THEN LastIns.addr
                 ELSE (Pre.eip + 2) % 256
        /\ OnlyEipChanged)

(***************************************************************************)
(* C23  JMPR with its flag set, at address p with diff byte d, sets eip to  *)
(* (p + s(d)) mod 256, s(d) being d read as a signed byte: the offset is    *)
(* relative to the jump's own address; with the flag clear eip becomes      *)
(* (p + 2) mod 256.                                                         *)
(***************************************************************************)
C23_JmpR ==
    (Stepped /\ LastIns.kind = "JmpR")
    => (/\ ~panicked
        /\ eip = IF FlagHolds(Pre.flags, LastIns.flag)
                 THEN (Pre.eip + Signed(LastIns.diff) + 256) % 256
                 ELSE (Pre.eip + 2) % 256)

C25_FlagsOnlyByAlu ==
    (Stepped /\ LastIns # NoInstruction /\ LastIns.kind # "Alu") => flags = Pre.flags

\* CALLC 6 ran after ALU INCR A A => A had set EQ, GE, LE: the flags are still set
C25_Witness ==
    /\ Stepped
    /\ LastIns = Stack(SCallC(6))
    /\ Pre.flags.equal
    /\ Pre.flags.greater_or_equal
    /\ flags.equal
    /\ flags.less_or_equal
    /\ eip = 6

\* the transition is a call of step() that did something
StepTaken == steps' # steps \/ hist' # hist

(***************************************************************************)
(* C26  GPIO ports: GPI dest copies into dest (a register other than the    *)
(* read-only FL and IP) the value of reg_i as the host last set it before   *)
(* the step; GPO src sets reg_o to read(src); no step changes reg_i, and no *)
(* step other than a GPO changes reg_o.                                     *)
(***************************************************************************)
C26_GpioPorts ==
    [][/\ (reg_i' # reg_i) => ~StepTaken
       /\ StepTaken =>
            LET ins == hist'[1].ins
            IN /\ (ins.kind = "Gpi" /\ ins.dest \notin {"FL", "IP"})
                     => registers'[ins.dest] = reg_i
               /\ ins.kind = "Gpo" => reg_o' = ValueIn(Self, ins.src)
               /\ ins.kind # "Gpo" => reg_o' = reg_o]_vars

\* GPO A wrote 7 to reg_o, the host set reg_i to 165, GPI A copied it and left reg_o
\* at 7, then the host set reg_i to 0
C26_Witness ==
    /\ Stepped
    /\ Len(hist) = 2
    /\ hist[2].ins = Gpo("A")
    /\ LastIns = Gpi("A")
    /\ Pre.reg_i = 165
    /\ registers["A"] = 165
    /\ reg_o = 7
    /\ reg_i = 0

\* the cell a STORE or STOREP writes, from the state before it
StoreCell(m, ins) == IF ins.kind = "Store" THEN ins.addr ELSE ValueIn(m, ins.addr_src)

(***************************************************************************)
(* C27  Store/load round trip: STORE src => a writes read(src) to mem[a]    *)
(* and STOREP src => p writes read(src) to mem[read(p)], each changing      *)
(* that one cell and no register or flag; a LOAD a => r, or a LOADP p => r  *)
(* with p unchanged, executed next yields in r (a register other than the   *)
(* read-only FL and IP) the value that was stored.                          *)
(***************************************************************************)
C27_StoreLoad ==
    /\ (Stepped /\ LastIns.kind \in {"Store", "StoreP"})
       => (/\ memory = [Pre.memory EXCEPT ![StoreCell(Pre, LastIns)] = ValueIn(Pre, LastIns.src)]
           /\ registers = Pre.registers
           /\ flags = Pre.flags)
    /\ (/\ Len(hist) = 2
        /\ hist[2].ins.kind = "Store"
        /\ LastIns.kind = "Load"
        /\ LastIns.addr = hist[2].ins.addr
        /\ LastIns.dest \notin {"FL", "IP"})
       => registers[LastIns.dest] = ValueIn(hist[2].pre, hist[2].ins.src)
    /\ (/\ Len(hist) = 2
        /\ hist[2].ins.kind = "StoreP"
        /\ LastIns.kind = "LoadP"
        /\ LastIns.addr_src = hist[2].ins.addr_src
        /\ ValueIn(Pre, LastIns.addr_src) = ValueIn(hist[2].pre, LastIns.addr_src)
        /\ LastIns.dest \notin {"FL", "IP"})
       => registers[LastIns.dest] = ValueIn(hist[2].pre, hist[2].ins.src)

\* STOREP IP => B at address 4 with B = 255 wrote 4 to cell 255; LOADP B => C read it
C27_Witness ==
    /\ Len(hist) = 2
    /\ hist[2].ins = StoreP("IP", "B")
    /\ hist[2].pre.eip = 4
    /\ LastIns = LoadP("C", "B")
    /\ registers["B"] = 255
    /\ memory[255] = 4
    /\ registers["C"] = 4
    /\ eip = 8

\* the 14 bytes the Fibonacci scenario expects in memory[100..=113]
FibonacciExpected == <<0, 1, 1, 2, 3, 5, 8, 13, 21, 34, 55, 89, 144, 233>>

\* the number of steps the Fibonacci run takes: 6 before the loop, 12 rounds of 11,
\* and the 5 of the round that leaves it
FibonacciRunSteps == 6 + 12 * 11 + 5

(***************************************************************************)
(* C28  Fibonacci scenario: run() on the 18-instruction Fibonacci program,  *)
(* from the initial state with all-zero data memory, terminates at its HALT *)
(* (it never panics, it halts within 143 steps, and it returns at address   *)
(* 34) with memory[100..=113] = 0,1,1,2,3,5,8,13,21,34,55,89,144,233; the   *)
(* JMPR Ou leaves the loop exactly after an ADD whose true sum exceeds 255. *)
(***************************************************************************)
C28_Fibonacci ==
    (program = FibonacciProgram)
    => (/\ ~panicked
        /\ steps <= FibonacciRunSteps
        /\ (c_pc = "long" /\ steps = FibonacciRunSteps) => is_halted(Self)
        /\ c_pc = "long_returned"
             => (/\ eip = 34
                 /\ steps = FibonacciRunSteps
                 /\ \A i \in 1..14 : memory[99 + i] = FibonacciExpected[i])
        /\ (Stepped /\ LastIns = JmpR("OverflowUnsigned", 14))
             => (/\ Len(hist) = 2
                 /\ hist[2].ins = Alu("Add", "A", "B", "C")
                 /\ (eip = 34)
                      <=> (hist[2].pre.registers["A"] + hist[2].pre.registers["B"] > 255)))

\* the run returned at the HALT at 34 after the ADD of 144 and 233
C28_Witness ==
    /\ program = FibonacciProgram
    /\ c_pc = "long_returned"
    /\ eip = 34
    /\ memory[112] = 144
    /\ memory[113] = 233
    /\ registers["A"] = 144
    /\ registers["B"] = 233
    /\ registers["C"] = (144 + 233) % 256
    /\ LastIns = JmpR("OverflowUnsigned", 14)

\* the i-th instruction of the program, as the fetch at address 2(i-1) decodes it
Decoded(i) == Instruction_try_from(program[2 * i - 1], program[2 * i])

\* the program is k >= 0 instructions that are no jump, call, ret or HALT, then a HALT
StraightThenHalt ==
    /\ Len(program) >= 2
    /\ Len(program) <= 256
    /\ Len(program) % 2 = 0
    /\ \A i \in 1..(Len(program) \div 2 - 1) : Decoded(i).ok /\ IsStraight(Decoded(i).val)
    /\ Decoded(Len(program) \div 2) = Ok(Nop("Halt"))

\* the k of such a program
StraightLength == Len(program) \div 2 - 1

\* instruction ins, executed in state m, is a store or push that writes cell a
WritesCell(ins, m, a) ==
    \/ ins.kind = "Store" /\ a = ins.addr
    \/ ins.kind = "StoreP" /\ a = ValueIn(m, ins.addr_src)
    \/ IsStack(ins, "Push") /\ a = (m.registers["ST"] + 255) % 256

(***************************************************************************)
(* C29  Straight-line termination: on a program of k instructions none of   *)
(* which is a jump, call, ret or HALT, followed by a HALT (2k + 2 <= 256),  *)
(* run() never panics, takes its i-th step at address 2(i-1), returns after *)
(* exactly k steps with eip = 2k, and no step changes a data memory cell    *)
(* other than the one a store or push writes.                               *)
(***************************************************************************)
C29_StraightLineTerminates ==
    [][StraightThenHalt =>
        /\ ~panicked'
        /\ steps' <= StraightLength
        /\ eip' = 2 * steps'
        /\ c_pc' = "long_returned" => (steps' = StraightLength /\ eip' = 2 * StraightLength)
        /\ StepTaken =>
             \A a \in Byte : memory'[a] # memory[a] => WritesCell(hist'[1].ins, Self, a)]_vars

\* the 127 NOP were stepped through and run() returned at the HALT at address 254
C29_Witness ==
    /\ program = NopFillProgram
    /\ c_pc = "long_returned"
    /\ steps = 127
    /\ eip = 254
    /\ LastIns = Nop("Nop")
    /\ memory = ZeroMemory

\* the line is blank, or its first non-blank character is '#'
Skipped(text) ==
    \/ \A i \in 1..Len(text) : text[i] \in {" ", "\t"}
    \/ \E i \in 1..Len(text) :
          /\ text[i] = "#"
          /\ \A j \in 1..(i - 1) : text[j] \in {" ", "\t"}

\* the lines of the source that are not skipped
Remaining == SelectSeq(c_ins, LAMBDA l : ~Skipped(l.text))

RECURSIVE WireForm(_)
\* b1 then b2 of each instruction, in order
WireForm(prog) ==
    IF prog = <<>> THEN <<>>
    ELSE <<Instruction_into(prog[1])[1], Instruction_into(prog[1])[2]>> \o WireForm(Tail(prog))

(***************************************************************************)
(* C30  The assembler skips blank lines and lines whose first non-blank     *)
(* character is '#': when every remaining line is an instruction, the       *)
(* source assembles to exactly the instructions of the remaining lines, in  *)
(* order, and generates their b1, b2 pairs in order.                        *)
(***************************************************************************)
C30_AssemblerSkips ==
    (/\ c_pc \in {"assembled", "rejected", "panicked", "generated"}
     /\ \A i \in 1..Len(Remaining) : Remaining[i].means # NoInstruction)
    => (/\ c_back = Ok([i \in 1..Len(Remaining) |-> Remaining[i].means])
        /\ c_pc = "generated"
             => c_words = WireForm([i \in 1..Len(Remaining) |-> Remaining[i].means]))

\* a blank line, an indented comment line and HALT were assembled to the bytes 0, 0
C30_Witness ==
    /\ c_pc = "generated"
    /\ Len(c_ins) = 3
    /\ c_ins[1].text = <<>>
    /\ c_ins[2].text = <<" ", " ", " ", " ", "#", " ", "T", "h", "i", "s", " ", "i", "s",
                         " ", "a", " ", "c", "o", "m", "m", "e", "n", "t">>
    /\ c_ins[3].means = Nop("Halt")
    /\ c_back = Ok(<<Nop("Halt")>>)
    /\ c_words = <<0, 0>>

(***************************************************************************)
(* C31  Integer literals in assembly: a decimal literal n with              *)
(* -128 <= n <= 255 is accepted and yields the byte n mod 256; any literal  *)
(* outside that range is rejected with an assembly error.                   *)
(***************************************************************************)
C31_Literals ==
    (c_pc \in {"parsed", "rejected", "panicked"})
    => IF c_ins.n >= -128 /\ c_ins.n <= 255
       THEN c_back = Ok(MovC("A", c_ins.n % 256))
       ELSE c_pc = "rejected"

\* the ALU operations that are no addition or subtraction
NonArithmetic == {"Xor", "Neg", "Or", "And", "Nand", "Nor", "ShiftL", "ShiftR", "Echo"}

(***************************************************************************)
(* C32  Flags are not cumulative: after a non-arithmetic ALU op (XOR, NEG,  *)
(* OR, AND, NAND, NOR, SHIFTL, SHIFTR, ECHO) both Ou and Os are clear,      *)
(* even when the previous ALU instruction had set them.                     *)
(***************************************************************************)
C32_OverflowCleared ==
    (Stepped /\ LastIns.kind = "Alu" /\ LastIns.op \in NonArithmetic)
    => (~flags.overflow_unsigned /\ ~flags.overflow_signed)

(***************************************************************************)
(* C33  Unsigned overflow on subtractions: after SUB on operand values a,   *)
(* b the Ou flag is set if and only if a < b, and after DECR on a if and    *)
(* only if a = 0.                                                           *)
(***************************************************************************)
C33_BorrowFlag ==
    (Stepped /\ LastIns.kind = "Alu" /\ LastIns.op \in {"Sub", "Decr"})
    => LET a == Pre.registers[LastIns.arg1]
           b == Pre.registers[LastIns.arg2]
       IN flags.overflow_unsigned
            <=> (IF LastIns.op = "Sub" THEN a < b ELSE a = 0)

\* the true signed result of an arithmetic ALU op on operand values a, b
TrueSignedResult(op, a, b) ==
    CASE op = "Add" -> Signed(a) + Signed(b)
      [] op = "AddCarry" -> Signed(a) + Signed(b) + 1
      [] op = "Incr" -> Signed(a) + 1
      [] op = "Decr" -> Signed(a) - 1
      [] op = "Sub" -> Signed(a) - Signed(b)

(***************************************************************************)
(* C34  Signed overflow: after ADD, ADDC, INCR, DECR and SUB on operand     *)
(* values a, b read as signed bytes, the Os flag is set if and only if the  *)
(* true signed result lies outside -128..127.                               *)
(***************************************************************************)
C34_SignedOverflow ==
    (Stepped /\ LastIns.kind = "Alu"
       /\ LastIns.op \in {"Add", "AddCarry", "Incr", "Decr", "Sub"})
    => LET r == TrueSignedResult(LastIns.op, Pre.registers[LastIns.arg1],
                                 Pre.registers[LastIns.arg2])
       IN flags.overflow_signed <=> (r < -128 \/ r > 127)

\* SUB of 1 from 128 (-128 as a signed byte) gave 127 and set Os: -129 is below -128
C34_Witness ==
    /\ Stepped
    /\ LastIns = Alu("Sub", "A", "B", "C")
    /\ Pre.registers["A"] = 128
    /\ Pre.registers["B"] = 1
    /\ registers["C"] = 127
    /\ flags.overflow_signed

(***************************************************************************)
(* C35  Shift counts of 8 or more saturate: when the arg2 value is >= 8,    *)
(* SHIFTL writes 0 to out and SHIFTR writes the all-sign-bit byte (0 if bit *)
(* 7 of arg1 is clear, 255 if it is set), for every arg1 value.             *)
(***************************************************************************)
C35_ShiftSaturates ==
    (/\ Stepped
     /\ LastIns.kind = "Alu"
     /\ LastIns.op \in {"ShiftL", "ShiftR"}
     /\ Pre.registers[LastIns.arg2] >= 8)
    => registers[LastIns.out]
         = IF LastIns.op = "ShiftL" THEN 0
           ELSE IF Pre.registers[LastIns.arg1] >= 128 THEN 255 ELSE 0

(***************************************************************************)
(* C35 (amended)  Shift counts of 8 or more are taken mod 8: when the arg2  *)
(* value b is >= 8, SHIFTL writes (a << (b mod 8)) mod 256 and SHIFTR the   *)
(* arithmetic right shift of a by b mod 8, so a count of 8 leaves a as it   *)
(* is.                                                                      *)
(***************************************************************************)
C35_ShiftCountMod8 ==
    (/\ Stepped
     /\ LastIns.kind = "Alu"
     /\ LastIns.op \in {"ShiftL", "ShiftR"}
     /\ Pre.registers[LastIns.arg2] >= 8)
    => LET a == Pre.registers[LastIns.arg1]
           n == Pre.registers[LastIns.arg2] % 8
       IN registers[LastIns.out]
            = IF LastIns.op = "ShiftL" THEN (a * 2^n) % 256
              ELSE ((Signed(a) - (Signed(a) % 2^n)) \div 2^n + 256) % 256

\* SHIFTL of 85 by 8 wrote 85 to C
C35_Witness ==
    /\ Stepped
    /\ LastIns = Alu("ShiftL", "A", "B", "C")
    /\ Pre.registers["A"] = 85
    /\ Pre.registers["B"] = 8
    /\ registers["C"] = 85

(***************************************************************************)
(* C36  Pointer jumps go through memory: JMPP with its flag set sets eip to *)
(* mem[read(addr_src)], and JMPRP with its flag set sets eip to             *)
(* (eip + s(mem[read(diff_src)])) mod 256, the cell read as a signed byte;  *)
(* with the flag clear both set eip to (eip + 2) mod 256.                   *)
(***************************************************************************)
C36_PointerJumps ==
    /\ (Stepped /\ LastIns.kind = "JmpP")
       => (/\ ~panicked
           /\ eip = IF FlagHolds(Pre.flags, LastIns.flag)
                    THEN Pre.memory[ValueIn(Pre, LastIns.addr_src)]
                    ELSE (Pre.eip + 2) % 256)
    /\ (Stepped /\ LastIns.kind = "JmpRP")
       => (/\ ~panicked
           /\ eip = IF FlagHolds(Pre.flags, LastIns.flag)
                    THEN (Pre.eip + Signed(Pre.memory[ValueIn(Pre, LastIns.diff_src)]) + 256) % 256
                    ELSE (Pre.eip + 2) % 256)

\* the destination register of an instruction that has one ("" when it has none)
DestOf(ins) ==
    IF ins.kind \in {"Load", "LoadP", "Mov", "MovC", "Gpi"} THEN ins.dest
    ELSE IF IsStack(ins, "Pop") THEN ins.stack_ins.dest
    ELSE ""

(***************************************************************************)
(* C37  Writes to FL or IP have no architectural effect: a MOV, MOVC, LOAD, *)
(* LOADP, POP or GPI whose destination is FL or IP moves eip by the normal  *)
(* +2 and changes no flag; a read of FL or IP made after such a write still *)
(* returns the packed flags or the address of the reading instruction,      *)
(* never the written value.                                                 *)
(***************************************************************************)
C37_ReadOnlyRegisters ==
    /\ (Stepped /\ LastIns # NoInstruction /\ DestOf(LastIns) \in {"FL", "IP"})
       => (/\ flags = Pre.flags
           /\ Pre.eip <= 253 => (~panicked /\ eip = Pre.eip + 2))
    /\ (/\ Stepped
        /\ LastIns.kind = "Mov"
        /\ LastIns.src \in {"FL", "IP"}
        /\ LastIns.src \in DOMAIN Pre.registers
        /\ LastIns.dest \notin {"FL", "IP"})
       => registers[LastIns.dest]
            = IF LastIns.src = "FL" THEN PackedFlags(Pre.flags) ELSE Pre.eip

\* MOVC 255 => FL ran with EQ, GE and GEs set; the MOV FL => B after it read 200
C37_Witness ==
    /\ Len(hist) = 2
    /\ hist[2].ins = MovC("FL", 255)
    /\ LastIns = Mov("B", "FL")
    /\ registers["FL"] = 255
    /\ registers["B"] = 200
    /\ eip = 6

(***************************************************************************)
(* C38  No timeout: run() returns only at a HALT; on the one-instruction    *)
(* program JMP T ? 0 (or JMPR T ? 0) every step leaves the state identical  *)
(* to the initial state, no reachable state is halted, and run() has not    *)
(* returned after any number of steps.                                      *)
(***************************************************************************)
C38_NoTimeout ==
    /\ c_pc = "long_returned" => (~panicked /\ HaltAt(Self))
    /\ (Len(program) = 2 /\ Decoded(1) \in {Ok(Jmp("True", 0)), Ok(JmpR("True", 0))})
       => (/\ c_pc = "long"
           /\ ~panicked
           /\ ~HaltAt(Self)
           /\ eip = 0
           /\ memory = [a \in Byte |-> 0]
           /\ \A r \in DOMAIN registers : registers[r] = 0
           /\ PackedFlags(flags) = 0
           /\ \A f \in RealFlagRef : ~FlagHolds(flags, f)
           /\ reg_i = 0
           /\ reg_o = 0)

\* JMPR T ? 0 was stepped LongSteps times and run() is still in its loop at address 0
C38_Witness ==
    /\ program = generate_code(<<JmpR("True", 0)>>)
    /\ c_pc = "long"
    /\ steps = LongSteps
    /\ LastIns = JmpR("True", 0)
    /\ eip = 0

\* the program is a pair (0x0X, 0xFF) followed by a pair (0x0Y, 0x00)
RawNopThenHalt ==
    /\ Len(program) = 4
    /\ program[1] < 16 /\ program[2] = 255
    /\ program[3] < 16 /\ program[4] = 0

(***************************************************************************)
(* C39  HALT and NOP are recognised from b2 alone: for opcode 0 the low     *)
(* nibble of b1 is ignored, so every pair (0x0X, 0x00) is treated as HALT   *)
(* by is_halted(), step() and run(), and every pair (0x0X, 0xFF) executes   *)
(* as NOP.                                                                  *)
(***************************************************************************)
C39_NopFromSecondByte ==
    RawNopThenHalt
    => (/\ ~panicked
        /\ eip \in {0, 2}
        /\ eip = 0 => (~Stepped /\ ~is_halted(Self) /\ c_pc = "running")
        /\ eip = 2 => (/\ is_halted(Self)
                       /\ step(Self) = Self
                       /\ steps = 1
                       /\ LastIns = Nop("Nop")
                       /\ Self = [Pre EXCEPT !.eip = 2]))

\* the pair (5, 255) ran as NOP and run() returned at the pair (10, 0)
C39_Witness ==
    /\ program = <<5, 255, 10, 0>>
    /\ c_pc = "returned"
    /\ eip = 2
    /\ steps = 1
    /\ LastIns = Nop("Nop")

\* the number of steps the two machines are followed for
ScheduleLen == 1

\* the host assigns reg_i and calls step(); a machine that panicked is gone
host_step(m, v) == IF m.panicked THEN m ELSE step([m EXCEPT !.reg_i = v])

\* the instruction the machine is about to execute is a GPI
GpiAt(m) ==
    LET instruction == fetch(m)
    IN ~m.panicked /\ instruction.ok /\ instruction.val.kind = "Gpi"

\* eip, registers, flags, memory, reg_o (and whether the machine panicked)
Visible(m) ==
    [eip |-> m.eip, registers |-> m.registers, flags |-> m.flags,
     memory |-> m.memory, reg_o |-> m.reg_o, panicked |-> m.panicked]

RECURSIVE Agree(_, _, _)
\* two machines stepped side by side for n steps, each with any input before
\* each step, agree after every step, up to the first GPI either executes
Agree(m1, m2, n) ==
    \/ n = 0
    \/ GpiAt(m1)
    \/ GpiAt(m2)
    \/ \A v1 \in HostBytes, v2 \in HostBytes :
           LET a == host_step(m1, v1)
               b == host_step(m2, v2)
           IN /\ Visible(a) = Visible(b)
              /\ Agree(a, b, n - 1)

(***************************************************************************)
(* C40  The input port influences the machine only through GPI: two         *)
(* machines with the same program and memory whose reg_i values differ (at  *)
(* any or all steps), running without executing a GPI, have identical eip,  *)
(* registers, flags, memory and reg_o after every step. Stated as the       *)
(* unwinding condition at every reachable state of a machine whose host     *)
(* writes reg_i between steps: two copies of the state, each given any      *)
(* input before each step, agree after each of the next ScheduleLen steps;  *)
(* the agreement after every step of two whole runs follows by induction.   *)
(***************************************************************************)
C40_InputOnlyThroughGpi == Agree(Self, Self, ScheduleLen)

\* the host put 165 on the input port, then GPO A put the 7 of A on the
\* output port, in a program without GPI
C40_Witness ==
    /\ Stepped
    /\ LastIns = Gpo("A")
    /\ Pre.reg_i = 165
    /\ reg_i = 165
    /\ reg_o = 7
    /\ \A i \in 1..(Len(program) \div 2) :
           ~(Decoded(i).ok /\ Decoded(i).val.kind = "Gpi")

====
